---------------------------- MODULE Spec2Model ----------------------------
(***************************************************************************)
(* State-machine model of SimulationScene (src/src/components/Home.tsx,    *)
(* lines 169-1033): a population of creatures playing the Iterated         *)
(* Prisoner's Dilemma.                                                     *)
(*                                                                         *)
(* Units.  The code computes with floating-point numbers; the model uses   *)
(* integers in fixed units so that every quantity the code derives from    *)
(* dt = delta / 1000 is exact:                                             *)
(*   time, age, simulationTime .... milliseconds                           *)
(*   resources, score, payoffs .... thousandths (Milli) of a resource unit *)
(*   positions .................... pixels                                 *)
(*   velocities ................... pixels per second                      *)
(*   error rates .................. percent                                *)
(* Movement divides and takes square roots; there the model truncates to   *)
(* whole pixels (per second).                                              *)
(***************************************************************************)
EXTENDS Integers, Sequences, FiniteSets, TLC

VARIABLES
  cfg,               \* SimulationConfig handed to init() (never changes)
  env,               \* what the runtime supplies: world size, frame deltas, random placements
  creatures,         \* this.creatures: the array of creature containers with their CreatureData
  foodGroup,         \* this.foodGroup: the live food items
  generationCount,   \* this.generationCount
  simulationTime,    \* this.simulationTime (ms)
  totalInteractions, \* this.totalInteractions
  time,              \* the clock value passed to update(time, delta) (ms)
  nextSpawn,         \* clock value at which the looping food timer fires next
  nextId,            \* source of fresh creature ids
  pc,                \* position inside one frame: idle, timers, creatures, filter, interact, food, stats
  idx,               \* index of the creature the forEach of update() visits next
  n0,                \* length of this.creatures when that forEach started
  pi,                \* outer index i of handleInteractions
  pj,                \* inner index j of handleInteractions
  dt,                \* delta of the running frame (ms)
  ticks,             \* number of frames started
  recorded,          \* history: every value updateMemory ever saved, per <<owner, opponent>>
  rounds,            \* history: every round handleIPDRound resolved, in order
  phaseLog           \* history: the steps taken in the running frame, in order

vars == <<cfg, env, creatures, foodGroup, generationCount, simulationTime,
          totalInteractions, time, nextSpawn, nextId, pc, idx, n0, pi, pj, dt,
          ticks, recorded, rounds, phaseLog>>

-----------------------------------------------------------------------------
(* Bounds of the model *)

\* frames a run of the main specification lasts
MaxTicks == 3
\* frames a run of the long two-creature scenario lasts
LongTicks == 17
\* frames a run of the two-creature scenario with a random opponent lasts
GrimTicks == 13
\* food items alive at one time (one per second for FoodLifetime, plus the one
\* spawned in the frame in which the oldest expires)
MaxFood == 16

-----------------------------------------------------------------------------
(* Program constants *)

\* fixed-point scale of resources and score
Milli == 1000
\* createCreature: resources: 100
StartResources == 100
\* updateMemory: if (history.length > 10) history.shift()
MemoryCapacity == 10
\* handleFoodConsumption: distance < this.creatureRadius + 15
PickupMargin == 15
\* spawnFood: this.time.delayedCall(15000, ...)
FoodLifetime == 15000
\* updateMovement: if (distance > 300) data.lastHarmer = null
FleeDecay == 300
\* updateMovement: const maxSpeed = 150
MaxSpeed == 150
\* updateMovement: const percent_keep = 0.95 (in percent)
PercentKeep == 95
\* init: this.interactionCooldown = 1010 - data.INTERACTION_SPEED
CooldownBase == 1010
\* init: this.payoffScale = 500 / data.INTERACTION_SPEED
PayoffScaleBase == 500
\* spawnFood: Phaser.Math.Between(20, width - 20)
FoodMargin == 20

\* (mutant) the payoff table with Axelrod's non-negative values
PAYOFF_MATRIX_NonNegative ==
  [CC |-> [A |-> 3, B |-> 3],
   CD |-> [A |-> 0, B |-> 5],
   DC |-> [A |-> 5, B |-> 0],
   DD |-> [A |-> 1, B |-> 1]]

\* PAYOFF_MATRIX
PAYOFF_MATRIX ==
  [CC |-> [A |-> 3, B |-> 3],
   CD |-> [A |-> -2, B |-> 5],
   DC |-> [A |-> 5, B |-> -2],
   DD |-> [A |-> -1, B |-> -1]]

\* STRATEGY_ORDER
STRATEGY_ORDER ==
  <<"tit-for-tat", "tit-for-two-tats", "win-stay-lose-shift", "grim trigger",
    "always cooperate", "always defect", "random">>

Strategies == {STRATEGY_ORDER[k] : k \in 1..Len(STRATEGY_ORDER)}

\* null of lastPartner / lastVictim, and of lastHarmer
NoId == -1
NoPoint == [x |-> -1, y |-> -1]
\* lastAction of a creature that is not win-stay-lose-shift (undefined); an
\* undefined lastPayoff is the empty sequence, a defined one <<payoff>>
Undefined == "undefined"

-----------------------------------------------------------------------------
(* Arithmetic helpers *)

Abs(a) == IF a < 0 THEN -a ELSE a

Min2(a, b) == IF a < b THEN a ELSE b

Max2(a, b) == IF a > b THEN a ELSE b

\* division truncated toward zero
Trunc(a, b) == IF a >= 0 THEN a \div b ELSE -((-a) \div b)

\* Phaser.Math.Clamp
Clamp(v, lo, hi) == Max2(lo, Min2(hi, v))

RECURSIVE SqrtIn(_, _, _)
SqrtIn(n, lo, hi) ==
  IF lo >= hi THEN lo
  ELSE LET mid == (lo + hi + 1) \div 2
       IN IF mid * mid <= n THEN SqrtIn(n, mid, hi) ELSE SqrtIn(n, lo, mid - 1)

\* Math.sqrt, truncated to an integer (n below 2^30)
ISqrt(n) == SqrtIn(n, 0, 32767)

\* squared Euclidean distance; Phaser.Math.Distance.Between(..) < d  <=>  DistSq < d*d
DistSq(x1, y1, x2, y2) == (x1 - x2) * (x1 - x2) + (y1 - y2) * (y1 - y2)

-----------------------------------------------------------------------------
(* Configuration (init) *)

\* this.interactionCooldown (ms)
InteractionCooldown == CooldownBase - cfg.INTERACTION_SPEED

\* payoff * this.payoffScale, in Milli
Scaled(payoff) == (payoff * PayoffScaleBase * Milli) \div cfg.INTERACTION_SPEED

\* A SimulationConfig as init(data) receives it: the values the setup screen
\* hands over for the fields it leaves alone (radius, distance, threshold,
\* MINIMUM_RESOURCE, MAINTENANCE_COST, OVERPOPULATION_FACTOR, FOOD_VALUE), the
\* lowest slider positions for the speeds, INTERACTION_SPEED, FOOD_SPAWN_RATE
\* and the error rates, one creature per strategy, two strategies enabled and
\* CARRYING_CAPACITY as the setup screen computes it from those (1 * 2 * 2).
\* The scenarios below replace fields of it.
BaseConfig ==
  [INITIAL_CREATURES_PER_STRATEGY |-> 1,
   CREATURE_RADIUS |-> 20,
   INTERACTION_DISTANCE |-> 200,
   INTERACTION_SPEED |-> 10,
   REPRODUCTION_THRESHOLD |-> 200,
   REPRODUCTION_COST |-> 100,
   MINIMUM_RESOURCE |-> 10,
   MAINTENANCE_COST |-> 5,
   CARRYING_CAPACITY |-> 4,
   OVERPOPULATION_FACTOR |-> 10,
   FOOD_SPAWN_RATE |-> 0,
   FOOD_VALUE |-> 60,
   ERROR_RATE_INTERACTION |-> 0,
   ERROR_RATE_MEMORY |-> 0,
   SPEED_RANDOM |-> 0,
   SPEED_FOOD |-> 0,
   SPEED_FLEE |-> 0,
   SPEED_CHASE |-> 0,
   enabledStrategies |-> {"always cooperate", "always defect"}]

\* A world the runtime supplies: the game's width and height, the frame deltas
\* it passes to update(), and the values its random source yields for initial
\* placement, food placement, offspring jitter and the wander angle.
DefaultEnv ==
  [width |-> 640,
   height |-> 480,
   deltas |-> {600},
   spawnPoints |-> {[x |-> 100, y |-> 100]},
   foodPoints |-> {[x |-> 110, y |-> 100]},
   jitters |-> {[x |-> 30, y |-> 0]},
   angles |-> {[cos |-> 1, sin |-> 0]},
   maxTicks |-> MaxTicks]

-----------------------------------------------------------------------------
(* createCreature *)

\* (mutant) createCreature with lastInteractionTime: 0
NewCreatureLastInteractionZero(strategy, id, x, y) ==
  [id |-> id,
   x |-> x,
   y |-> y,
   active |-> TRUE,
   velocityX |-> 0,
   velocityY |-> 0,
   resources |-> StartResources * Milli,
   strategy |-> strategy,
   memory |-> <<>>,
   lastInteractionTime |-> 0,
   age |-> 0,
   score |-> 0,
   interactionCount |-> 0,
   cooperationCount |-> 0,
   defectionCount |-> 0,
   lastPartner |-> NoId,
   lastAction |-> IF strategy = "win-stay-lose-shift" THEN "C" ELSE Undefined,
   lastPayoff |-> IF strategy = "win-stay-lose-shift" THEN <<3 * Milli>> ELSE <<>>,
   lastHarmer |-> NoPoint,
   lastVictim |-> NoId]

\* the CreatureData record (and the container's x, y, active) of a new creature
NewCreature(strategy, id, x, y) ==
  [id |-> id,
   x |-> x,
   y |-> y,
   active |-> TRUE,
   velocityX |-> 0,
   velocityY |-> 0,
   resources |-> StartResources * Milli,
   strategy |-> strategy,
   memory |-> <<>>,
   lastInteractionTime |-> -InteractionCooldown,
   age |-> 0,
   score |-> 0,
   interactionCount |-> 0,
   cooperationCount |-> 0,
   defectionCount |-> 0,
   lastPartner |-> NoId,
   lastAction |-> IF strategy = "win-stay-lose-shift" THEN "C" ELSE Undefined,
   lastPayoff |-> IF strategy = "win-stay-lose-shift" THEN <<3 * Milli>> ELSE <<>>,
   lastHarmer |-> NoPoint,
   lastVictim |-> NoId]

\* position of an offspring: parent + Between(-30, 30), clamped to the world
OffspringX(parentX, jx) ==
  Clamp(parentX + jx, cfg.CREATURE_RADIUS, env.width - cfg.CREATURE_RADIUS)

OffspringY(parentY, jy) ==
  Clamp(parentY + jy, cfg.CREATURE_RADIUS, env.height - cfg.CREATURE_RADIUS)

-----------------------------------------------------------------------------
(* initializeCreatures *)

RECURSIVE Repeat(_, _)
Repeat(v, n) == IF n = 0 THEN <<>> ELSE <<v>> \o Repeat(v, n - 1)

RECURSIVE SeedFrom(_, _)
SeedFrom(c, k) ==
  IF k > Len(STRATEGY_ORDER) THEN <<>>
  ELSE (IF STRATEGY_ORDER[k] \in c.enabledStrategies
        THEN Repeat(STRATEGY_ORDER[k], c.INITIAL_CREATURES_PER_STRATEGY)
        ELSE <<>>) \o SeedFrom(c, k + 1)

\* (mutant) initializeCreatures creating one creature per enabled strategy
SeedStrategiesOneEach(c) ==
  SeedFrom([c EXCEPT !.INITIAL_CREATURES_PER_STRATEGY = 1], 1)

\* the strategies of the creatures initializeCreatures creates, in creation order
SeedStrategies(c) == SeedFrom(c, 1)

InitScenario(s) ==
  /\ cfg = s.cfg
  /\ env = s.env
  /\ \E place \in [1..Len(SeedStrategies(s.cfg)) -> s.env.spawnPoints] :
       creatures = [k \in 1..Len(SeedStrategies(s.cfg)) |->
                      NewCreature(SeedStrategies(s.cfg)[k], k - 1, place[k].x, place[k].y)]
  /\ foodGroup = <<>>
  /\ generationCount = 0
  /\ simulationTime = 0
  /\ totalInteractions = 0
  /\ time = 0
  /\ nextSpawn = IF s.cfg.FOOD_SPAWN_RATE > 0 THEN 1000 \div s.cfg.FOOD_SPAWN_RATE ELSE 0
  /\ nextId = Len(SeedStrategies(s.cfg))
  /\ pc = "idle"
  /\ idx = 0
  /\ n0 = 0
  /\ pi = 0
  /\ pj = 0
  /\ dt = 0
  /\ ticks = 0
  /\ recorded = <<>>
  /\ rounds = <<>>
  /\ phaseLog = <<>>

-----------------------------------------------------------------------------
(* memory: Map<id, ('C' | 'D')[]> *)

\* memory.get(opponentId) || []
PastMoves(memory, opponentId) ==
  IF opponentId \in DOMAIN memory THEN memory[opponentId] ELSE <<>>

\* (mutant) updateMemory without the shift of the oldest entry
PushHistoryKeepsAll(history, savedAction) == Append(history, savedAction)

\* history.push(savedAction); if (history.length > 10) history.shift()
PushHistory(history, savedAction) ==
  LET pushed == Append(history, savedAction)
  IN IF Len(pushed) > MemoryCapacity THEN Tail(pushed) ELSE pushed

\* (mutant) the opposite action computed as the same action
FlipKeeps(action) == action

Flip(action) == IF action = "C" THEN "D" ELSE "C"

\* (mutant) updateMemory that saves nothing
UpdateMemorySavesNothing(memory, opponentId, opponentAction, noise) == memory

\* (mutant) updateMemory that starts a new Map for the saved action
UpdateMemoryDropsOthers(memory, opponentId, opponentAction, noise) ==
  opponentId :> PushHistory(PastMoves(memory, opponentId),
                            IF noise THEN Flip(opponentAction) ELSE opponentAction)

\* updateMemory: the creature's memory after it saves opponentAction (negated
\* when the memory-noise draw fell below errorRateMemory)
UpdateMemory(memory, opponentId, opponentAction, noise) ==
  LET savedAction == IF noise THEN Flip(opponentAction) ELSE opponentAction
  IN (opponentId :> PushHistory(PastMoves(memory, opponentId), savedAction)) @@ memory

\* (mutant) a draw that can fall below any rate, 0 included
DrawsBelowAnyRate(rate) == BOOLEAN

\* the outcomes of the draw Math.random() < rate (rate in percent)
Draws(rate) == {b \in BOOLEAN : (b => rate > 0) /\ (~b => rate < 100)}

-----------------------------------------------------------------------------
(* getAction *)

Includes(seq, v) == \E k \in 1..Len(seq) : seq[k] = v

\* (mutant) the switch of getAction with tit-for-two-tats defecting after a
\* single Defect
IntendedActionOneTat(strategy, pastMoves, lastAction, lastPayoff, coin) ==
  CASE strategy = "always cooperate" -> "C"
    [] strategy = "always defect" -> "D"
    [] strategy = "tit-for-tat" ->
         IF Len(pastMoves) > 0 THEN pastMoves[Len(pastMoves)] ELSE "C"
    [] strategy = "random" -> coin
    [] strategy = "win-stay-lose-shift" ->
         LET la == IF lastAction = Undefined THEN "C" ELSE lastAction
             lp == IF lastPayoff = <<>> THEN 3 * Milli ELSE lastPayoff[1]
         IN IF lp > 0 THEN la ELSE Flip(la)
    [] strategy = "grim trigger" ->
         IF Includes(pastMoves, "D") THEN "D" ELSE "C"
    [] strategy = "tit-for-two-tats" ->
         IF Len(pastMoves) >= 1 /\ pastMoves[Len(pastMoves)] = "D"
         THEN "D" ELSE "C"
    [] OTHER -> "C"

\* the switch of getAction: the action the strategy intends; coin is the
\* outcome of Math.random() < 0.5 of the random strategy
IntendedAction(strategy, pastMoves, lastAction, lastPayoff, coin) ==
  CASE strategy = "always cooperate" -> "C"
    [] strategy = "always defect" -> "D"
    [] strategy = "tit-for-tat" ->
         IF Len(pastMoves) > 0 THEN pastMoves[Len(pastMoves)] ELSE "C"
    [] strategy = "random" -> coin
    [] strategy = "win-stay-lose-shift" ->
         LET la == IF lastAction = Undefined THEN "C" ELSE lastAction
             lp == IF lastPayoff = <<>> THEN 3 * Milli ELSE lastPayoff[1]
         IN IF lp > 0 THEN la ELSE Flip(la)
    [] strategy = "grim trigger" ->
         IF Includes(pastMoves, "D") THEN "D" ELSE "C"
    [] strategy = "tit-for-two-tats" ->
         IF /\ Len(pastMoves) >= 2
            /\ pastMoves[Len(pastMoves)] = "D"
            /\ pastMoves[Len(pastMoves) - 1] = "D"
         THEN "D" ELSE "C"
    [] OTHER -> "C"

\* getAction(creature, opponent): the intended action, flipped when the
\* action-noise draw fell below errorRateInteraction
GetAction(c, opponent, coin, noise) ==
  LET action == IntendedAction(c.strategy, PastMoves(c.memory, opponent.id),
                               c.lastAction, c.lastPayoff, coin)
  IN IF noise THEN Flip(action) ELSE action

\* the coin outcomes that matter for a creature (only the random strategy draws)
Coins(c) == IF c.strategy = "random" THEN {"C", "D"} ELSE {"C"}

-----------------------------------------------------------------------------
(* handleIPDRound *)

\* (mutant) the entries for CD and DC taken from each other's rows
PayoffEntryMirrored(actionA, actionB) ==
  CASE actionA = "C" /\ actionB = "C" -> PAYOFF_MATRIX.CC
    [] actionA = "C" /\ actionB = "D" -> PAYOFF_MATRIX.DC
    [] actionA = "D" /\ actionB = "C" -> PAYOFF_MATRIX.CD
    [] actionA = "D" /\ actionB = "D" -> PAYOFF_MATRIX.DD

\* the matrix entry of the pair of executed actions
PayoffEntry(actionA, actionB) ==
  CASE actionA = "C" /\ actionB = "C" -> PAYOFF_MATRIX.CC
    [] actionA = "C" /\ actionB = "D" -> PAYOFF_MATRIX.CD
    [] actionA = "D" /\ actionB = "C" -> PAYOFF_MATRIX.DC
    [] actionA = "D" /\ actionB = "D" -> PAYOFF_MATRIX.DD

\* (mutant) handleIPDRound without the update of lastAction and lastPayoff
AfterRoundKeepsLastAction(me, other, myAction, otherAction, myPayoff, otherPayoff, memNoise, now) ==
  [me EXCEPT
     !.resources = @ + myPayoff,
     !.score = @ + myPayoff,
     !.interactionCount = @ + 1,
     !.cooperationCount = IF myAction = "C" THEN @ + 1 ELSE @,
     !.lastHarmer = IF myPayoff < 0 THEN [x |-> other.x, y |-> other.y] ELSE @,
     !.lastVictim = IF otherPayoff < 0 THEN other.id ELSE @,
     !.memory = UpdateMemory(@, other.id, otherAction, memNoise),
     !.lastInteractionTime = now,
     !.lastPartner = other.id]

\* (mutant) handleIPDRound marking the victim from the wrong payoff
AfterRoundVictimFromOwnPayoff(me, other, myAction, otherAction, myPayoff, otherPayoff, memNoise, now) ==
  [me EXCEPT
     !.resources = @ + myPayoff,
     !.score = @ + myPayoff,
     !.interactionCount = @ + 1,
     !.cooperationCount = IF myAction = "C" THEN @ + 1 ELSE @,
     !.lastHarmer = IF myPayoff < 0 THEN [x |-> other.x, y |-> other.y] ELSE @,
     !.lastVictim = IF myPayoff < 0 THEN other.id ELSE @,
     !.memory = UpdateMemory(@, other.id, otherAction, memNoise),
     !.lastAction = IF me.strategy = "win-stay-lose-shift" THEN myAction ELSE @,
     !.lastPayoff = IF me.strategy = "win-stay-lose-shift" THEN <<myPayoff>> ELSE @,
     !.lastInteractionTime = now,
     !.lastPartner = other.id]

\* one participant after the round: me played myAction and received myPayoff,
\* other received otherPayoff and played otherAction (saved with memNoise)
AfterRound(me, other, myAction, otherAction, myPayoff, otherPayoff, memNoise, now) ==
  [me EXCEPT
     !.resources = @ + myPayoff,
     !.score = @ + myPayoff,
     !.interactionCount = @ + 1,
     !.cooperationCount = IF myAction = "C" THEN @ + 1 ELSE @,
     !.lastHarmer = IF myPayoff < 0 THEN [x |-> other.x, y |-> other.y] ELSE @,
     !.lastVictim = IF otherPayoff < 0 THEN other.id ELSE @,
     !.memory = UpdateMemory(@, other.id, otherAction, memNoise),
     !.lastAction = IF me.strategy = "win-stay-lose-shift" THEN myAction ELSE @,
     !.lastPayoff = IF me.strategy = "win-stay-lose-shift" THEN <<myPayoff>> ELSE @,
     !.lastInteractionTime = now,
     !.lastPartner = other.id]

-----------------------------------------------------------------------------
(* updateMovement *)

\* (mutant) (d / distance) * speed without the test distance > 0: at distance
\* 0 the quotient is not a number, written as a value no velocity takes
TowardUnguarded(d, dx, dy, speed) ==
  IF dx * dx + dy * dy > 0 THEN Trunc(d * speed, ISqrt(dx * dx + dy * dy))
  ELSE -(MaxSpeed * MaxSpeed)

\* (d / distance) * speed for the offset (dx, dy), zero when distance is 0
Toward(d, dx, dy, speed) ==
  IF dx * dx + dy * dy > 0 THEN Trunc(d * speed, ISqrt(dx * dx + dy * dy)) ELSE 0

RECURSIVE NearestFrom(_, _, _, _, _)
NearestFrom(foods, k, x, y, best) ==
  IF k > Len(foods) THEN best
  ELSE IF best = 0 \/ DistSq(x, y, foods[k].x, foods[k].y)
                        < DistSq(x, y, foods[best].x, foods[best].y)
       THEN NearestFrom(foods, k + 1, x, y, k)
       ELSE NearestFrom(foods, k + 1, x, y, best)

\* index of the nearest food item (the first of equally near ones), 0 if none
NearestFood(foods, x, y) == NearestFrom(foods, 1, x, y, 0)

\* lastVictim.active: the victim is still in this.creatures and not destroyed
VictimActive(cs, victimId) ==
  \E k \in 1..Len(cs) : cs[k].id = victimId /\ cs[k].active

VictimOf(cs, victimId) ==
  cs[CHOOSE k \in 1..Len(cs) : cs[k].id = victimId /\ cs[k].active]

\* 1. random wandering component
WanderForce(angle) ==
  IF cfg.SPEED_RANDOM > 0
  THEN [x |-> angle.cos * cfg.SPEED_RANDOM, y |-> angle.sin * cfg.SPEED_RANDOM]
  ELSE [x |-> 0, y |-> 0]

\* 2. food seeking component
FoodForce(c, foods) ==
  IF cfg.SPEED_FOOD > 0 /\ NearestFood(foods, c.x, c.y) # 0
  THEN LET f == foods[NearestFood(foods, c.x, c.y)]
       IN [x |-> Toward(f.x - c.x, f.x - c.x, f.y - c.y, cfg.SPEED_FOOD),
           y |-> Toward(f.y - c.y, f.x - c.x, f.y - c.y, cfg.SPEED_FOOD)]
  ELSE [x |-> 0, y |-> 0]

\* 3. flee from harmer component
FleeForce(c) ==
  IF cfg.SPEED_FLEE > 0 /\ c.lastHarmer # NoPoint
  THEN [x |-> Toward(c.x - c.lastHarmer.x, c.x - c.lastHarmer.x,
                     c.y - c.lastHarmer.y, cfg.SPEED_FLEE),
        y |-> Toward(c.y - c.lastHarmer.y, c.x - c.lastHarmer.x,
                     c.y - c.lastHarmer.y, cfg.SPEED_FLEE)]
  ELSE [x |-> 0, y |-> 0]

\* lastHarmer after the flee step: cleared once farther away than 300
HarmerAfter(c) ==
  IF /\ cfg.SPEED_FLEE > 0
     /\ c.lastHarmer # NoPoint
     /\ DistSq(c.x, c.y, c.lastHarmer.x, c.lastHarmer.y) > FleeDecay * FleeDecay
  THEN NoPoint ELSE c.lastHarmer

\* 4. chase victim component
ChaseForce(c, cs) ==
  IF cfg.SPEED_CHASE > 0 /\ c.lastVictim # NoId /\ VictimActive(cs, c.lastVictim)
  THEN LET v == VictimOf(cs, c.lastVictim)
       IN [x |-> Toward(v.x - c.x, v.x - c.x, v.y - c.y, cfg.SPEED_CHASE),
           y |-> Toward(v.y - c.y, v.x - c.x, v.y - c.y, cfg.SPEED_CHASE)]
  ELSE [x |-> 0, y |-> 0]

\* (mutant) updateMovement without the clearing of a dead victim
VictimAfterKeepsDead(c, cs) == c.lastVictim

\* lastVictim after the chase step: cleared when the victim is no longer active
VictimAfter(c, cs) ==
  IF c.lastVictim # NoId /\ ~VictimActive(cs, c.lastVictim) THEN NoId ELSE c.lastVictim

\* velocity * percent_keep + v * (1 - percent_keep)
Blend(old, v) == Trunc(old * PercentKeep + v * (100 - PercentKeep), 100)

\* limit max speed
LimitSpeed(v, vx, vy) ==
  IF vx * vx + vy * vy > MaxSpeed * MaxSpeed
  THEN Trunc(v * MaxSpeed, ISqrt(vx * vx + vy * vy))
  ELSE v

\* bounce off edges: the position clamped, and whether the axis was crossed
Crossed(p, limit) == p < cfg.CREATURE_RADIUS \/ p > limit - cfg.CREATURE_RADIUS

\* (mutant) the bounce without Phaser.Math.Clamp
BoundedUnclamped(p, limit) == p

Bounded(p, limit) ==
  IF Crossed(p, limit)
  THEN Clamp(p, cfg.CREATURE_RADIUS, limit - cfg.CREATURE_RADIUS)
  ELSE p

\* updateMovement(creature, deltaSeconds): the creature after its movement step
UpdateMovement(c, cs, foods, delta, angle) ==
  LET vx == WanderForce(angle).x + FoodForce(c, foods).x
              + FleeForce(c).x + ChaseForce(c, cs).x
      vy == WanderForce(angle).y + FoodForce(c, foods).y
              + FleeForce(c).y + ChaseForce(c, cs).y
      bx == Blend(c.velocityX, vx)
      by == Blend(c.velocityY, vy)
      lx == LimitSpeed(bx, bx, by)
      ly == LimitSpeed(by, bx, by)
      newX == c.x + Trunc(lx * delta, 1000)
      newY == c.y + Trunc(ly * delta, 1000)
  IN [c EXCEPT
        !.lastHarmer = HarmerAfter(c),
        !.lastVictim = VictimAfter(c, cs),
        !.velocityX = IF Crossed(newX, env.width) THEN -lx ELSE lx,
        !.velocityY = IF Crossed(newY, env.height) THEN -ly ELSE ly,
        !.x = Bounded(newX, env.width),
        !.y = Bounded(newY, env.height)]

-----------------------------------------------------------------------------
(* updateCreature: resources *)

\* (mutant) the maintenance cost of a frame of 200 ms charged for every frame,
\* whatever its delta
MaintenanceDrainPerFrame(delta) == cfg.MAINTENANCE_COST * 200

\* maintenanceCost * deltaSeconds (Milli)
MaintenanceDrain(delta) == cfg.MAINTENANCE_COST * delta

\* (mutant) extraDrain counted from one creature above carryingCapacity
ExtraDrainAboveNext(population, delta) ==
  (population - cfg.CARRYING_CAPACITY - 1) * cfg.OVERPOPULATION_FACTOR * delta

\* (creatures.length - carryingCapacity) * overpopulationFactor * deltaSeconds (Milli)
ExtraDrain(population, delta) ==
  (population - cfg.CARRYING_CAPACITY) * cfg.OVERPOPULATION_FACTOR * delta

\* (mutant) currentResources computed from the length this.creatures had when
\* the forEach started
CurrentResourcesOfStartLength(resources, population, delta) ==
  IF n0 > cfg.CARRYING_CAPACITY * 2 THEN 0
  ELSE IF n0 > cfg.CARRYING_CAPACITY
       THEN resources - MaintenanceDrain(delta) - ExtraDrain(n0, delta)
       ELSE resources - MaintenanceDrain(delta)

\* (mutant) currentResources without the cutoff above twice carryingCapacity
CurrentResourcesWithoutCutoff(resources, population, delta) ==
  IF population > cfg.CARRYING_CAPACITY
  THEN resources - MaintenanceDrain(delta) - ExtraDrain(population, delta)
  ELSE resources - MaintenanceDrain(delta)

\* currentResources of updateCreature, before the starvation check
CurrentResources(resources, population, delta) ==
  IF population > cfg.CARRYING_CAPACITY * 2 THEN 0
  ELSE IF population > cfg.CARRYING_CAPACITY
       THEN resources - MaintenanceDrain(delta) - ExtraDrain(population, delta)
       ELSE resources - MaintenanceDrain(delta)

\* (mutant) the starvation check with < 0 for <= minimumResource
StarvedBelowZero(resources) == resources < 0

\* death by starvation
Starved(resources) == resources <= cfg.MINIMUM_RESOURCE * Milli

\* check for reproduction
CanReproduce(resources) == resources >= cfg.REPRODUCTION_THRESHOLD * Milli

\* (mutant) reproduce(creature) without the deduction of reproductionCost
ReproduceAtNoCost(cs, k, id, jitter) ==
  Append(cs, NewCreature(cs[k].strategy, id,
                         OffspringX(cs[k].x, jitter.x), OffspringY(cs[k].y, jitter.y)))

\* (mutant) reproduce(creature) creating the offspring with the first strategy
\* of STRATEGY_ORDER instead of the parent's
ReproduceFirstStrategy(cs, k, id, jitter) ==
  Append([cs EXCEPT ![k].resources = @ - cfg.REPRODUCTION_COST * Milli],
         NewCreature(STRATEGY_ORDER[1], id,
                     OffspringX(cs[k].x, jitter.x), OffspringY(cs[k].y, jitter.y)))

\* reproduce(creature): the array after creature k pays reproductionCost and
\* its offspring (a new creature of the same strategy near it) is pushed
Reproduce(cs, k, id, jitter) ==
  Append([cs EXCEPT ![k].resources = @ - cfg.REPRODUCTION_COST * Milli],
         NewCreature(cs[k].strategy, id,
                     OffspringX(cs[k].x, jitter.x), OffspringY(cs[k].y, jitter.y)))

-----------------------------------------------------------------------------
(* handleInteractions *)

\* (mutant) no cooldown test
OnCooldownNever(c, now) == FALSE

\* time - data.lastInteractionTime < this.interactionCooldown
OnCooldown(c, now) == now - c.lastInteractionTime < InteractionCooldown

\* (mutant) the cooldown test looks at creatureB only
EligibleIgnoringA(a, b, now) == ~OnCooldown(b, now)

\* the pair is not skipped by the cooldown test
Eligible(a, b, now) == ~(OnCooldown(a, now) \/ OnCooldown(b, now))

\* distance < this.interactionDistance
InRange(a, b) ==
  DistSq(a.x, a.y, b.x, b.y) < cfg.INTERACTION_DISTANCE * cfg.INTERACTION_DISTANCE

\* (mutant) the outer loop stops after its first pass
HasNextPairInRow(i, j, n) == j < n

\* whether the scan has a pair after (i, j) in an array of length n
HasNextPair(i, j, n) == j < n \/ i + 2 <= n

NextI(i, j, n) == IF j < n THEN i ELSE i + 1

NextJ(i, j, n) == IF j < n THEN j + 1 ELSE i + 2

-----------------------------------------------------------------------------
(* handleFoodConsumption *)

\* distance < this.creatureRadius + 15
InPickup(c, f) ==
  DistSq(c.x, c.y, f.x, f.y)
    < (cfg.CREATURE_RADIUS + PickupMargin) * (cfg.CREATURE_RADIUS + PickupMargin)

\* the food items creature c is within pickup distance of
Reachable(c, foods) == {i \in 1..Len(foods) : InPickup(c, foods[i])}

\* data.resources += foodValue, once for every food item whose inner loop finds c
Fed(c, foods) ==
  [c EXCEPT !.resources = @ + Cardinality(Reachable(c, foods)) * cfg.FOOD_VALUE * Milli]

\* food.destroy() was called for f
Eaten(cs, f) == \E k \in 1..Len(cs) : InPickup(cs[k], f)

-----------------------------------------------------------------------------
(* update: the order of its phases *)

\* (mutant) update() calls handleFoodConsumption before handleInteractions
PhaseAfterFoodFirst(p) ==
  CASE p = "idle" -> "timers"
    [] p = "timers" -> "creatures"
    [] p = "creatures" -> "filter"
    [] p = "filter" -> "food"
    [] p = "food" -> "interact"
    [] p = "interact" -> "stats"
    [] p = "stats" -> "idle"

PhaseAfter(p) ==
  CASE p = "idle" -> "timers"
    [] p = "timers" -> "creatures"
    [] p = "creatures" -> "filter"
    [] p = "filter" -> "interact"
    [] p = "interact" -> "food"
    [] p = "food" -> "stats"
    [] p = "stats" -> "idle"

Event(ev, id, other) == [ev |-> ev, id |-> id, other |-> other]

\* recorded, with the values the two participants of a round saved
Record(rec, a, b, savedByA, savedByB) ==
  (<<a, b>> :> Append(PastMoves(rec, <<a, b>>), savedByA))
    @@ (<<b, a>> :> Append(PastMoves(rec, <<b, a>>), savedByB))
    @@ rec

-----------------------------------------------------------------------------
(* Actions *)

config == <<cfg, env>>
counters == <<generationCount, totalInteractions>>
scan == <<pi, pj>>
loop == <<idx, n0>>
history == <<recorded, rounds>>

\* FOOD_SPAWN_RATE > 0 and the looping timer of create() is due
SpawnDue ==
  /\ cfg.FOOD_SPAWN_RATE > 0
  /\ time >= nextSpawn
  /\ Len(foodGroup) < MaxFood

\* a delayedCall(15000) of spawnFood is due for a food item still active
ExpireDue == \E k \in 1..Len(foodGroup) : time - foodGroup[k].born >= FoodLifetime

\* The runtime starts a frame: the clock advances by the frame's delta.
GameStep ==
  /\ pc = "idle"
  /\ ticks < env.maxTicks
  /\ \E delta \in env.deltas :
       /\ dt' = delta
       /\ time' = time + delta
  /\ ticks' = ticks + 1
  /\ pc' = PhaseAfter(pc)
  /\ phaseLog' = <<>>
  /\ UNCHANGED <<config, creatures, foodGroup, counters, simulationTime, nextSpawn,
                 nextId, loop, scan, history>>

\* spawnFood, called by the looping timer
SpawnFood ==
  /\ pc = "timers"
  /\ SpawnDue
  /\ \E p \in env.foodPoints :
       foodGroup' = Append(foodGroup,
                           [x |-> p.x, y |-> p.y, value |-> cfg.FOOD_VALUE, born |-> time])
  /\ nextSpawn' = nextSpawn + (1000 \div cfg.FOOD_SPAWN_RATE)
  /\ UNCHANGED <<config, creatures, counters, simulationTime, time, nextId, pc,
                 loop, scan, dt, ticks, history, phaseLog>>

\* the delayedCall of spawnFood: if (food.active) food.destroy(). Only the
\* specification of the run without end with food that is left to expire
\* (SpecLarder) lasts FoodLifetime ms and includes it.
ExpireFood ==
  /\ pc = "timers"
  /\ ExpireDue
  /\ foodGroup' = SelectSeq(foodGroup, LAMBDA f : time - f.born < FoodLifetime)
  /\ UNCHANGED <<config, creatures, counters, simulationTime, time, nextSpawn, nextId,
                 pc, loop, scan, dt, ticks, history, phaseLog>>

\* update(time, delta), up to the start of its creatures.forEach
Update ==
  /\ pc = "timers"
  /\ ~SpawnDue
  /\ ~ExpireDue
  /\ simulationTime' = simulationTime + dt
  /\ idx' = 1
  /\ n0' = Len(creatures)
  /\ pc' = IF Len(creatures) = 0 THEN PhaseAfter(PhaseAfter(pc)) ELSE PhaseAfter(pc)
  /\ UNCHANGED <<config, creatures, foodGroup, counters, time, nextSpawn, nextId,
                 scan, dt, ticks, history, phaseLog>>

\* updateCreature(creature, time, deltaSeconds) for the creature forEach visits
UpdateCreature ==
  /\ pc = "creatures"
  /\ idx <= n0
  /\ LET c == creatures[idx]
         res == CurrentResources(c.resources, Len(creatures), dt)
         aged == [creatures EXCEPT ![idx].age = @ + dt, ![idx].resources = res]
     IN IF Starved(res)
        THEN /\ creatures' = [aged EXCEPT ![idx].active = FALSE]
             /\ phaseLog' = Append(phaseLog, Event("economy", c.id, NoId))
                              \o <<Event("destroy", c.id, NoId)>>
             /\ UNCHANGED <<generationCount, nextId>>
        ELSE \E angle \in env.angles, jitter \in env.jitters :
               LET born == CanReproduce(res)
                   cs == IF born THEN Reproduce(aged, idx, nextId, jitter) ELSE aged
               IN /\ creatures' =
                       [cs EXCEPT ![idx] = UpdateMovement(cs[idx], cs, foodGroup, dt, angle)]
                  /\ generationCount' = IF born THEN generationCount + 1 ELSE generationCount
                  /\ nextId' = IF born THEN nextId + 1 ELSE nextId
                  /\ phaseLog' =
                       Append(phaseLog, Event("economy", c.id, NoId))
                         \o (IF born THEN <<Event("reproduce", c.id, nextId)>> ELSE <<>>)
                         \o <<Event("movement", c.id, NoId)>>
  /\ idx' = idx + 1
  /\ pc' = IF idx = n0 THEN PhaseAfter(pc) ELSE pc
  /\ UNCHANGED <<config, foodGroup, totalInteractions, simulationTime, time, nextSpawn,
                 n0, scan, dt, ticks, history>>

\* (mutant) update() without its filter of the destroyed creatures
FilterKeepsDestroyed ==
  /\ pc = "filter"
  /\ pi' = 1
  /\ pj' = 2
  /\ pc' = IF Len(creatures) < 2 THEN PhaseAfter(PhaseAfter(pc)) ELSE PhaseAfter(pc)
  /\ phaseLog' = Append(phaseLog, Event("filter", NoId, NoId))
  /\ UNCHANGED <<config, creatures, foodGroup, counters, simulationTime, time, nextSpawn,
                 nextId, loop, dt, ticks, history>>

\* this.creatures = this.creatures.filter(creature => creature.active)
FilterCreatures ==
  /\ pc = "filter"
  /\ creatures' = SelectSeq(creatures, LAMBDA c : c.active)
  /\ pi' = 1
  /\ pj' = 2
  /\ pc' = IF Len(creatures') < 2 THEN PhaseAfter(PhaseAfter(pc)) ELSE PhaseAfter(pc)
  /\ phaseLog' = Append(phaseLog, Event("filter", NoId, NoId))
  /\ UNCHANGED <<config, foodGroup, counters, simulationTime, time, nextSpawn, nextId,
                 loop, dt, ticks, history>>

\* handleIPDRound(creatureA, creatureB, time) and this.totalInteractions++
Round(a, b) ==
  \E coinA \in Coins(a), coinB \in Coins(b),
     noiseA \in Draws(cfg.ERROR_RATE_INTERACTION),
     noiseB \in Draws(cfg.ERROR_RATE_INTERACTION),
     memA \in Draws(cfg.ERROR_RATE_MEMORY),
     memB \in Draws(cfg.ERROR_RATE_MEMORY) :
    LET actionA == GetAction(a, b, coinA, noiseA)
        actionB == GetAction(b, a, coinB, noiseB)
        payoffA == Scaled(PayoffEntry(actionA, actionB).A)
        payoffB == Scaled(PayoffEntry(actionA, actionB).B)
        afterA == AfterRound(a, b, actionA, actionB, payoffA, payoffB, memA, time)
        afterB == AfterRound(b, a, actionB, actionA, payoffB, payoffA, memB, time)
    IN /\ creatures' = [creatures EXCEPT ![pi] = afterA, ![pj] = afterB]
       /\ totalInteractions' = totalInteractions + 1
       /\ recorded' = Record(recorded, a.id, b.id,
                             IF memA THEN Flip(actionB) ELSE actionB,
                             IF memB THEN Flip(actionA) ELSE actionA)
       /\ rounds' = Append(rounds,
                            [time |-> time, a |-> a.id, b |-> b.id,
                             strategyA |-> a.strategy, strategyB |-> b.strategy,
                             intendedA |-> GetAction(a, b, coinA, FALSE),
                             intendedB |-> GetAction(b, a, coinB, FALSE),
                             actionA |-> actionA, actionB |-> actionB])
       /\ phaseLog' = Append(phaseLog, Event("round", a.id, b.id))

\* one pass of the inner loop body of handleInteractions, for the pair (pi, pj)
HandleInteractions ==
  /\ pc = "interact"
  /\ IF Eligible(creatures[pi], creatures[pj], time) /\ InRange(creatures[pi], creatures[pj])
     THEN Round(creatures[pi], creatures[pj])
     ELSE UNCHANGED <<creatures, totalInteractions, history, phaseLog>>
  /\ IF HasNextPair(pi, pj, Len(creatures))
     THEN /\ pi' = NextI(pi, pj, Len(creatures))
          /\ pj' = NextJ(pi, pj, Len(creatures))
          /\ pc' = pc
     ELSE /\ UNCHANGED scan
          /\ pc' = PhaseAfter(pc)
  /\ UNCHANGED <<config, foodGroup, generationCount, simulationTime, time, nextSpawn,
                 nextId, loop, dt, ticks>>

\* handleFoodConsumption(): foodItems.forEach(food => creatures.forEach(...))
HandleFoodConsumption ==
  /\ pc = "food"
  /\ creatures' = [k \in 1..Len(creatures) |-> Fed(creatures[k], foodGroup)]
  /\ foodGroup' = SelectSeq(foodGroup, LAMBDA f : ~Eaten(creatures, f))
  /\ pc' = PhaseAfter(pc)
  /\ phaseLog' = Append(phaseLog, Event("food", NoId, NoId))
  /\ UNCHANGED <<config, counters, simulationTime, time, nextSpawn, nextId, loop,
                 scan, dt, ticks, history>>

\* updateStats(): reads the state for the stats text; the frame ends
UpdateStats ==
  /\ pc = "stats"
  /\ pc' = PhaseAfter(pc)
  /\ phaseLog' = Append(phaseLog, Event("stats", NoId, NoId))
  /\ UNCHANGED <<config, creatures, foodGroup, counters, simulationTime, time, nextSpawn,
                 nextId, loop, scan, dt, ticks, history>>

\* one frame without the food timers
NextCore ==
  \/ GameStep
  \/ Update
  \/ UpdateCreature
  \/ FilterCreatures
  \/ HandleInteractions
  \/ HandleFoodConsumption
  \/ UpdateStats

Next ==
  \/ NextCore
  \/ SpawnFood

-----------------------------------------------------------------------------
(* Scenarios and specifications *)

Near == [x |-> 100, y |-> 100]
Mid == [x |-> 250, y |-> 100]
Far == [x |-> 400, y |-> 100]

\* Three creatures (tit-for-tat, always cooperate, always defect), each placed
\* at one of three points in a row, neighbours within INTERACTION_DISTANCE and
\* the outer two not; food spawns beside the first point or away from all;
\* frames of 200 ms or 600 ms; creatures standing still (all speeds 0) or
\* seeking food, fleeing and chasing at speed 100.
MainScenarios ==
  {[cfg |-> [BaseConfig EXCEPT
               !.enabledStrategies = {"tit-for-tat", "always cooperate", "always defect"},
               !.CARRYING_CAPACITY = cap,
               !.FOOD_SPAWN_RATE = 1,
               !.SPEED_FOOD = speed,
               !.SPEED_FLEE = speed,
               !.SPEED_CHASE = speed],
    env |-> [DefaultEnv EXCEPT
               !.deltas = {200, 600},
               !.spawnPoints = {Near, Mid, Far},
               !.foodPoints = {[x |-> 110, y |-> 100], [x |-> 300, y |-> 300]}]]
     : cap \in {2, 6}, speed \in {0, 100}}

\* Two creatures in range of each other, one round per frame (cooldown 10 ms,
\* frames of 200 ms): win-stay-lose-shift against always defect for LongTicks
\* frames, and grim trigger against random and tit-for-tat against always
\* defect for GrimTicks frames.
LongScenarios ==
  {[cfg |-> [BaseConfig EXCEPT
               !.enabledStrategies = {"win-stay-lose-shift", "always defect"},
               !.INTERACTION_SPEED = 1000],
    env |-> [DefaultEnv EXCEPT !.deltas = {200}, !.maxTicks = LongTicks]],
   [cfg |-> [BaseConfig EXCEPT
               !.enabledStrategies = {"grim trigger", "random"},
               !.INTERACTION_SPEED = 1000],
    env |-> [DefaultEnv EXCEPT !.deltas = {200}, !.maxTicks = GrimTicks]],
   [cfg |-> [BaseConfig EXCEPT
               !.enabledStrategies = {"tit-for-tat", "always defect"},
               !.INTERACTION_SPEED = 1000],
    env |-> [DefaultEnv EXCEPT !.deltas = {200}, !.maxTicks = GrimTicks]]}

\* Axelrod's single-encounter setting: 10 always-cooperate and 10 always-defect
\* creatures at one point, no noise, no movement, CARRYING_CAPACITY as the
\* setup screen computes it (10 * 2 strategies * 2).
AxelrodScenarios ==
  {[cfg |-> [BaseConfig EXCEPT
               !.INITIAL_CREATURES_PER_STRATEGY = 10,
               !.CARRYING_CAPACITY = 40],
    env |-> DefaultEnv]}

Init == \E s \in MainScenarios : InitScenario(s)

InitLong == \E s \in LongScenarios : InitScenario(s)

InitAxelrod == \E s \in AxelrodScenarios : InitScenario(s)

Spec == Init /\ [][Next]_vars

SpecLong == InitLong /\ [][NextCore]_vars

SpecAxelrod == InitAxelrod /\ [][NextCore]_vars

-----------------------------------------------------------------------------
(* The RESET button of the SimulationScene that has one (the second
   SimulationScene of Home.tsx, whose fields, init() and create() are the ones
   modelled above plus the button): pointerdown starts SetupScene, whose start
   button starts 'SimulationScene' again with its config. The scene manager
   keeps one SimulationScene object per key and calls init(data) and create()
   on it again; the field initialisers of the class (creatures = [],
   generationCount = 0, simulationTime = 0, totalInteractions = 0) ran when the
   object was constructed and do not run again. The shutdown of the scene
   destroys its game objects. The frames after a reset are not modelled: the
   run ends in the state create() leaves. *)

\* the creatures initializeCreatures pushes, placed at place[k]
Seeded(c, place) ==
  [k \in 1..Len(SeedStrategies(c)) |->
     NewCreature(SeedStrategies(c)[k], k - 1, place[k].x, place[k].y)]

\* the containers of the scene that was shut down
ShutDown(cs) == [k \in 1..Len(cs) |-> [cs[k] EXCEPT !.active = FALSE]]

\* pointerdown on RESET between two frames, then start in SetupScene
Reset ==
  /\ pc = "idle"
  /\ ticks > 0
  /\ \E place \in [1..Len(SeedStrategies(cfg)) -> env.spawnPoints] :
       creatures' = ShutDown(creatures) \o Seeded(cfg, place)
  /\ foodGroup' = <<>>
  /\ nextSpawn' = IF cfg.FOOD_SPAWN_RATE > 0
                  THEN time + (1000 \div cfg.FOOD_SPAWN_RATE) ELSE 0
  /\ pc' = "reset"
  /\ UNCHANGED <<config, counters, simulationTime, time, nextId, loop, scan, dt,
                 ticks, history, phaseLog>>

NextReset == NextCore \/ SpawnFood \/ Reset

SpecReset == Init /\ [][NextReset]_vars

-----------------------------------------------------------------------------
(* Creatures at the edges of the world *)

TopLeft == [x |-> 20, y |-> 20]
BottomRight == [x |-> 620, y |-> 460]

\* An always-cooperate and an always-defect creature, each placed in the
\* top-left or the bottom-right corner of the world, on the boundary of the
\* rectangle createCreature draws from; they wander (SPEED_RANDOM) towards or
\* away from the edges, seek food, and offspring are born at the corner with
\* a jitter that points out of or into the world.
EdgeScenarios ==
  {[cfg |-> [BaseConfig EXCEPT
               !.FOOD_SPAWN_RATE = 1,
               !.SPEED_RANDOM = 100,
               !.SPEED_FOOD = 100],
    env |-> [DefaultEnv EXCEPT
               !.deltas = {200, 600},
               !.spawnPoints = {TopLeft, BottomRight},
               !.jitters = {[x |-> -30, y |-> -30], [x |-> 30, y |-> 30]},
               !.angles = {[cos |-> -1, sin |-> 0], [cos |-> 0, sin |-> 1]}]]}

InitEdge == \E s \in EdgeScenarios : InitScenario(s)

SpecEdge == InitEdge /\ [][Next]_vars

-----------------------------------------------------------------------------
(* Food at the far end of the world *)

\* An always-cooperate and an always-defect creature, each placed in the
\* top-left or the bottom-right corner of the world, seeking food
\* (SPEED_FOOD 100) that appears in one of the same two corners of the
\* rectangle spawnFood draws from: on the creature's own spot or as far from
\* it as the world allows. Creatures in the same corner play (with
\* INTERACTION_SPEED 1000 the sucker's payoff is -1 and both live on), so
\* the harmer's position and the victim are on the creature's own spot
\* too; creatures flee and chase at speed 100.
ForageScenarios ==
  {[cfg |-> [BaseConfig EXCEPT
               !.INTERACTION_SPEED = 1000,
               !.FOOD_SPAWN_RATE = 1,
               !.SPEED_FOOD = 100,
               !.SPEED_FLEE = 100,
               !.SPEED_CHASE = 100],
    env |-> [DefaultEnv EXCEPT
               !.deltas = {200, 600},
               !.spawnPoints = {TopLeft, BottomRight},
               !.foodPoints = {TopLeft, BottomRight}]]}

InitForage == \E s \in ForageScenarios : InitScenario(s)

SpecForage == InitForage /\ [][Next]_vars

-----------------------------------------------------------------------------
(* Which strategies are enabled, and how many creatures of each *)

\* One or two creatures per strategy, with no strategy, one strategy or two
\* strategies enabled (the other strategies of STRATEGY_ORDER disabled), all
\* at one point, food spawning beside it, frames of 200 ms or 600 ms.
SeedScenarios ==
  {[cfg |-> [BaseConfig EXCEPT
               !.INITIAL_CREATURES_PER_STRATEGY = per,
               !.FOOD_SPAWN_RATE = 1,
               !.enabledStrategies = enabled],
    env |-> [DefaultEnv EXCEPT !.deltas = {200, 600}]]
     : per \in {1, 2},
       enabled \in {{}, {"always defect"}, {"tit-for-tat", "always defect"}}}

InitSeed == \E s \in SeedScenarios : InitScenario(s)

SpecSeed == InitSeed /\ [][Next]_vars

-----------------------------------------------------------------------------
(* A population at its carrying capacity *)

Here == [x |-> 100, y |-> 100]
East == [x |-> 500, y |-> 100]
South == [x |-> 100, y |-> 400]

\* Four creatures (tit-for-tat, always cooperate, always defect, random) with
\* CARRYING_CAPACITY 4, or 1 (a world that starts above twice its capacity),
\* each placed at one of three points that are out of
\* INTERACTION_DISTANCE of each other: creatures at the same point play,
\* creatures alone at a point never do. No food.
CrowdScenarios ==
  {[cfg |-> [BaseConfig EXCEPT
               !.enabledStrategies =
                  {"tit-for-tat", "always cooperate", "always defect", "random"},
               !.CARRYING_CAPACITY = cap],
    env |-> [DefaultEnv EXCEPT
               !.deltas = {200, 600},
               !.spawnPoints = {Here, East, South}]]
     : cap \in {1, 4}}

InitCrowd == \E s \in CrowdScenarios : InitScenario(s)

SpecCrowd == InitCrowd /\ [][NextCore]_vars

-----------------------------------------------------------------------------
(* Rounds with noise *)

West == [x |-> 60, y |-> 100]

\* Three creatures (win-stay-lose-shift, always cooperate, always defect),
\* each placed at one of two points within INTERACTION_DISTANCE of each other
\* (an offspring born beside the second point is out of range of the first),
\* with either action noise or memory noise at 5 percent and the other off.
\* No food.
NoisyScenarios ==
  {[cfg |-> [BaseConfig EXCEPT
               !.enabledStrategies =
                  {"win-stay-lose-shift", "always cooperate", "always defect"},
               !.ERROR_RATE_INTERACTION = rates.action,
               !.ERROR_RATE_MEMORY = rates.memory],
    env |-> [DefaultEnv EXCEPT !.spawnPoints = {West, Mid}]]
     : rates \in {[action |-> 5, memory |-> 0], [action |-> 0, memory |-> 5]}}

InitNoisy == \E s \in NoisyScenarios : InitScenario(s)

SpecNoisy == InitNoisy /\ [][NextCore]_vars

-----------------------------------------------------------------------------
(* Tit-for-two-tats against every sequence of actions *)

\* A tit-for-two-tats creature and a random creature in range of each other,
\* one round per frame (cooldown 10 ms, frames of 200 ms), no noise, for
\* GrimTicks frames: the random creature plays every sequence of actions.
TwoTatsScenarios ==
  {[cfg |-> [BaseConfig EXCEPT
               !.enabledStrategies = {"tit-for-two-tats", "random"},
               !.INTERACTION_SPEED = 1000],
    env |-> [DefaultEnv EXCEPT !.deltas = {200}, !.maxTicks = GrimTicks]]}

InitTwoTats == \E s \in TwoTatsScenarios : InitScenario(s)

SpecTwoTats == InitTwoTats /\ [][NextCore]_vars

-----------------------------------------------------------------------------
(* A run without end *)

\* A run in balance: a tit-for-tat and an always-cooperate creature stand
\* together, an always-defect creature stands within INTERACTION_DISTANCE of
\* them on the spot where food appears. With INTERACTION_SPEED 1000 the
\* cooldown is 10 ms and a round of mutual cooperation pays 1.5; with frames
\* of 250 ms and MAINTENANCE_COST 6 a frame drains 1.5; one food item of
\* value 6 appears per second. Nothing moves (all speeds 0).
OrbitScenario ==
  [cfg |-> [BaseConfig EXCEPT
              !.enabledStrategies = {"tit-for-tat", "always cooperate", "always defect"},
              !.INTERACTION_SPEED = 1000,
              !.MAINTENANCE_COST = 6,
              !.FOOD_SPAWN_RATE = 1,
              !.FOOD_VALUE = 6],
   env |-> [DefaultEnv EXCEPT
              !.deltas = {250},
              !.spawnPoints = {West, Mid},
              !.foodPoints = {West}]]

\* createCreature drew the second point for the first two creatures and the
\* first point for the third
InitOrbit ==
  /\ InitScenario(OrbitScenario)
  /\ creatures[1].x = Mid.x
  /\ creatures[2].x = Mid.x
  /\ creatures[3].x = West.x

\* The fields of a creature that no decision of the simulation reads (age,
\* score, cooperationCount: updateStats shows them) are forgotten when a
\* frame starts, interactionCount is kept as "none" or "some", and
\* lastInteractionTime is kept relative to the clock, no further back than
\* the cooldown: the cooldown test reads only time - lastInteractionTime.
AtFrameStart(c) ==
  [c EXCEPT
     !.lastInteractionTime = Max2(@ - time, -InteractionCooldown),
     !.age = 0,
     !.score = 0,
     !.interactionCount = Min2(@, 1),
     !.cooperationCount = 0]

\* The runtime starts a frame, as GameStep, in a run that never ends: the
\* clock is read relative to the frame before (the timers and the cooldown
\* test read differences of times only), the statistics and the logs of the
\* frames before are forgotten, and the frames are not counted.
GameStepOnward ==
  /\ pc = "idle"
  /\ \E delta \in env.deltas :
       /\ dt' = delta
       /\ time' = delta
  /\ creatures' = [k \in 1..Len(creatures) |-> AtFrameStart(creatures[k])]
  /\ foodGroup' = [k \in 1..Len(foodGroup) |->
                     [foodGroup[k] EXCEPT !.born = @ - time]]
  /\ nextSpawn' = IF cfg.FOOD_SPAWN_RATE > 0 THEN nextSpawn - time ELSE nextSpawn
  /\ simulationTime' = 0
  /\ totalInteractions' = Min2(totalInteractions, 1)
  /\ ticks' = 1
  /\ recorded' = <<>>
  /\ rounds' = <<>>
  /\ phaseLog' = <<>>
  /\ pc' = PhaseAfter(pc)
  /\ UNCHANGED <<config, generationCount, nextId, loop, scan>>

NextOrbit ==
  \/ GameStepOnward
  \/ SpawnFood
  \/ Update
  \/ UpdateCreature
  \/ FilterCreatures
  \/ HandleInteractions
  \/ HandleFoodConsumption
  \/ UpdateStats

\* the runtime keeps calling update() and running its timers
SpecOrbit == InitOrbit /\ [][NextOrbit]_vars /\ WF_vars(NextOrbit)

-----------------------------------------------------------------------------
(* Runs without end in which food is eaten, is left to expire, or never
   appears *)

\* Two always-cooperate creatures stand together at the first point and play
\* one round per frame (INTERACTION_SPEED 1000: cooldown 10 ms, mutual
\* cooperation pays 1.5; frames of 250 ms, MAINTENANCE_COST 12 drains 3 per
\* frame). Food of value 6 appears once per second on their spot (it is eaten
\* in the frame it appears, and the creatures are in balance) or out of their
\* reach (it is left to expire, and the creatures starve after 15 s), or
\* FOOD_SPAWN_RATE is 0. Nothing moves (all speeds 0).
LarderScenarios ==
  {[cfg |-> [BaseConfig EXCEPT
               !.enabledStrategies = {"always cooperate"},
               !.INITIAL_CREATURES_PER_STRATEGY = 2,
               !.INTERACTION_SPEED = 1000,
               !.MAINTENANCE_COST = 12,
               !.FOOD_SPAWN_RATE = rate,
               !.FOOD_VALUE = 6],
    env |-> [DefaultEnv EXCEPT
               !.deltas = {250},
               !.spawnPoints = {West},
               !.foodPoints = {spot}]]
     : rate \in {0, 1}, spot \in {West, Far}}

InitLarder == \E s \in LarderScenarios : InitScenario(s)

NextLarder ==
  \/ GameStepOnward
  \/ SpawnFood
  \/ ExpireFood
  \/ Update
  \/ UpdateCreature
  \/ FilterCreatures
  \/ HandleInteractions
  \/ HandleFoodConsumption
  \/ UpdateStats

\* the runtime keeps calling update() and running its timers
SpecLarder == InitLarder /\ [][NextLarder]_vars /\ WF_vars(NextLarder)

-----------------------------------------------------------------------------
(* The win-stay-lose-shift decision as a function of the payoffs received:
   creature 0 (win-stay-lose-shift) is put through the steps of handleIPDRound
   that concern it, getAction and the updates of its CreatureData, with the
   payoff it receives drawn from FedPayoffs instead of computed from the
   opponent's action. *)

\* the number of rounds fed
MaxFed == 5

\* the matrix entries a participant can receive
FedPayoffs == {PAYOFF_MATRIX.CC.A, PAYOFF_MATRIX.CD.A, PAYOFF_MATRIX.DC.A, PAYOFF_MATRIX.DD.A}

WslsScenarios ==
  {[cfg |-> [BaseConfig EXCEPT
               !.enabledStrategies = {"win-stay-lose-shift", "always defect"},
               !.INTERACTION_SPEED = 1000],
    env |-> DefaultEnv]}

InitWsls == \E s \in WslsScenarios : InitScenario(s)

\* handleIPDRound for creatureA = creatures[1], with payoffA given
FeedPayoff ==
  /\ Len(rounds) < MaxFed
  /\ \E payoff \in FedPayoffs, otherAction \in {"C", "D"} :
       LET c == creatures[1]
           other == creatures[2]
           action == GetAction(c, other, "C", FALSE)
       IN /\ creatures' = [creatures EXCEPT
                             ![1] = AfterRound(c, other, action, otherAction,
                                               Scaled(payoff), 0, FALSE, time)]
          /\ rounds' = Append(rounds,
                              [time |-> time, a |-> c.id, b |-> other.id,
                               actionA |-> action, actionB |-> otherAction,
                               fed |-> payoff])
  /\ UNCHANGED <<config, foodGroup, counters, simulationTime, time, nextSpawn, nextId,
                 pc, loop, scan, dt, ticks, recorded, phaseLog>>

SpecWsls == InitWsls /\ [][FeedPayoff]_vars

-----------------------------------------------------------------------------
(* Vocabulary of the properties *)

\* all but the last element
Front(seq) == SubSeq(seq, 1, Len(seq) - 1)

\* the last n elements (all of them when there are fewer)
LastN(seq, n) == SubSeq(seq, Max2(1, Len(seq) - n + 1), Len(seq))

\* the rounds creature id took part in, as indices into rounds
RoundsOf(id) == {r \in 1..Len(rounds) : rounds[r].a = id \/ rounds[r].b = id}

\* the payoff (Milli) creature id received in round r
PayoffIn(r, id) ==
  IF r.a = id THEN Scaled(PayoffEntry(r.actionA, r.actionB).A)
  ELSE Scaled(PayoffEntry(r.actionA, r.actionB).B)

\* resources <= minimumResource
AtOrBelowThreshold(resources) == resources <= cfg.MINIMUM_RESOURCE * Milli

\* the creatures of collection cs that are within pickup distance of food item f
Eaters(cs, f) == {k \in 1..Len(cs) : InPickup(cs[k], f)}

-----------------------------------------------------------------------------
(* C1: with no noise, once a grim-trigger creature's memory of an opponent has
   held a Defect, every later action it plays against that opponent is Defect.
   Stated over the history: in every round of a grim-trigger creature whose
   earlier saved observations of that opponent include a "D", its executed
   action is "D". *)

\* how often x and y met in the rounds before round k
MetBefore(k, x, y) ==
  Cardinality({q \in 1..(k - 1) : {rounds[q].a, rounds[q].b} = {x, y}})

\* what x had saved about y when round k began
SavedBefore(k, x, y) == SubSeq(PastMoves(recorded, <<x, y>>), 1, MetBefore(k, x, y))

C1_GrimTriggerIsIrreversible ==
  \A k \in 1..Len(rounds) :
    LET r == rounds[k]
    IN /\ (r.strategyA = "grim trigger" /\ Includes(SavedBefore(k, r.a, r.b), "D"))
            => r.actionA = "D"
       /\ (r.strategyB = "grim trigger" /\ Includes(SavedBefore(k, r.b, r.a), "D"))
            => r.actionB = "D"

-----------------------------------------------------------------------------
(* C2: in the food-consumption pass each food item grants its value to at most
   one creature: of the creatures within pickup distance of an item only the
   first in collection order gains, and the item is destroyed. *)

FirstEaterGain(cs, foods, k) ==
  Cardinality({i \in 1..Len(foods) :
                 k \in Eaters(cs, foods[i]) /\ \A m \in Eaters(cs, foods[i]) : k <= m})
    * cfg.FOOD_VALUE * Milli

C2_FoodFeedsOnlyFirstCreature ==
  [][pc = "food" =>
       /\ \A k \in 1..Len(creatures) :
            creatures'[k].resources
              = creatures[k].resources + FirstEaterGain(creatures, foodGroup, k)
       /\ \A i \in 1..Len(foodGroup) :
            Eaters(creatures, foodGroup[i]) # {}
              => ~(\E n \in 1..Len(foodGroup') : foodGroup'[n] = foodGroup[i])]_vars

-----------------------------------------------------------------------------
(* C3: after two creatures interact at time T neither takes part in any round,
   with any creature, at a time earlier than T + interactionCooldown: any two
   rounds that share a participant are at least interactionCooldown apart. *)

SharesParticipant(r, q) == {r.a, r.b} \cap {q.a, q.b} # {}

C3_CooldownBlocksBothParticipants ==
  \A i, j \in 1..Len(rounds) :
    (i < j /\ SharesParticipant(rounds[i], rounds[j]))
      => rounds[j].time >= rounds[i].time + InteractionCooldown

\* a creature has interacted again after its cooldown, with another creature
\* within range throughout
C3_Witness ==
  \E i, j \in 1..Len(rounds) :
    /\ i < j
    /\ SharesParticipant(rounds[i], rounds[j])
    /\ rounds[j].time > rounds[i].time

-----------------------------------------------------------------------------
(* C4: a creature at or below minimumResource is removed before any further
   processing of the tick, so every live creature's resources stay above the
   death threshold.
   As claimed: every creature of the collection that has not been destroyed
   has resources above minimumResource. *)

C4_LiveCreaturesStayAboveThreshold ==
  \A k \in 1..Len(creatures) :
    creatures[k].active => ~AtOrBelowThreshold(creatures[k].resources)

\* the positions in phaseLog of the events ev of creature id
EventsOf(ev, id) ==
  {p \in 1..Len(phaseLog) : phaseLog[p].ev = ev /\ phaseLog[p].id = id}

\* creature id was destroyed in the economy step of the running frame
DestroyedNow(id) == EventsOf("destroy", id) # {}

\* creature c is on or below the threshold because of the negative payoff of
\* its latest round, and its economy step has not run since
SuckerSince(k) ==
  LET c == creatures[k]
      late == {r \in RoundsOf(c.id) : rounds[r].time = c.lastInteractionTime}
  IN /\ \E r \in late : PayoffIn(rounds[r], c.id) < 0
     /\ \/ c.lastInteractionTime = time /\ pc \in {"interact", "food", "stats", "idle"}
        \/ c.lastInteractionTime = time - dt /\ pc = "timers"
        \/ c.lastInteractionTime = time - dt /\ pc = "creatures" /\ k >= idx

(* C4 as amended: a creature whose resources are at or below minimumResource at
   its economy step is destroyed in that step, without reproducing or moving,
   and is out of the collection before interaction matching, food consumption
   and stats of that tick; a live creature is at or below the threshold only
   after the negative payoff of a round, until its next economy step. *)
C4_StarvedCreaturesLeaveBeforeInteractions ==
  /\ \A k \in 1..Len(creatures) :
       /\ ~creatures[k].active =>
            /\ pc \in {"creatures", "filter"}
            /\ AtOrBelowThreshold(creatures[k].resources)
            /\ DestroyedNow(creatures[k].id)
       /\ (creatures[k].active /\ AtOrBelowThreshold(creatures[k].resources)) => SuckerSince(k)
  /\ \A p \in 1..Len(phaseLog) :
       phaseLog[p].ev = "destroy" =>
         /\ EventsOf("movement", phaseLog[p].id) = {}
         /\ EventsOf("reproduce", phaseLog[p].id) = {}
         /\ \A q \in 1..Len(phaseLog) :
              phaseLog[q].ev = "round" => phaseLog[p].id \notin {phaseLog[q].id, phaseLog[q].other}

\* a creature was destroyed in this frame's economy step and interaction
\* matching has run without it
C4_Witness ==
  /\ pc \in {"food", "stats"}
  /\ \E p \in 1..Len(phaseLog) :
       /\ phaseLog[p].ev = "destroy"
       /\ \A k \in 1..Len(creatures) : creatures[k].id # phaseLog[p].id
  /\ \E q \in 1..Len(phaseLog) : phaseLog[q].ev = "round"

-----------------------------------------------------------------------------
(* C5: 10 always-cooperate and 10 always-defect creatures, all in range of each
   other, no noise, no movement: the always-defect creatures obtain the higher
   mean score per interaction (+5 against -2 per round, scaled), and an
   always-defect creature reaches the reproduction threshold before any
   always-cooperate creature does. *)

RECURSIVE SumScore(_, _)
\* the sum of the scores of the creatures of cs with the given strategy
SumScore(cs, strategy) ==
  IF cs = <<>> THEN 0
  ELSE (IF Head(cs).strategy = strategy THEN Head(cs).score ELSE 0)
         + SumScore(Tail(cs), strategy)

RECURSIVE SumPlayed(_, _)
\* the sum of their interaction counts
SumPlayed(cs, strategy) ==
  IF cs = <<>> THEN 0
  ELSE (IF Head(cs).strategy = strategy THEN Head(cs).interactionCount ELSE 0)
         + SumPlayed(Tail(cs), strategy)

\* creature k has reached the reproduction threshold
AtThreshold(k) == creatures[k].resources >= cfg.REPRODUCTION_THRESHOLD * Milli

C5_DefectorsOutscoreCooperators ==
  LET scoreC == SumScore(creatures, "always cooperate")
      scoreD == SumScore(creatures, "always defect")
      playedC == SumPlayed(creatures, "always cooperate")
      playedD == SumPlayed(creatures, "always defect")
  IN /\ (playedC > 0 /\ playedD > 0) =>
          /\ scoreD * playedC > scoreC * playedD
          /\ scoreD = playedD * Scaled(PAYOFF_MATRIX.DC.A)
          /\ scoreC = playedC * Scaled(PAYOFF_MATRIX.CD.A)
     /\ (\E k \in 1..Len(creatures) :
           creatures[k].strategy = "always cooperate" /\ AtThreshold(k))
          => (generationCount > 0
              \/ \E k \in 1..Len(creatures) :
                   creatures[k].strategy = "always defect" /\ AtThreshold(k))

-----------------------------------------------------------------------------
(* C6: within one tick the phases run in the order economy, movement,
   interactions, food consumption, stats, each finishing for all creatures
   before the next starts, and no phase is entered twice. *)

\* the phase an event of phaseLog belongs to, as the claim counts them
ClaimedPhase(ev) ==
  CASE ev \in {"economy", "destroy", "reproduce"} -> 1
    [] ev = "movement" -> 2
    [] ev = "filter" -> 2
    [] ev = "round" -> 3
    [] ev = "food" -> 4
    [] ev = "stats" -> 5

\* as claimed: no step of a later phase precedes a step of an earlier one, so no
\* creature's movement step runs before every creature's economy step is done
C6_PhasesRunOneAfterAnother ==
  \A p, q \in 1..Len(phaseLog) :
    p < q => ClaimedPhase(phaseLog[p].ev) <= ClaimedPhase(phaseLog[q].ev)

\* the phases of update() as the code has them: the forEach that runs
\* updateCreature (economy, then movement, creature by creature), the filter,
\* handleInteractions, handleFoodConsumption, updateStats
CodePhase(ev) ==
  CASE ev \in {"economy", "destroy", "reproduce", "movement"} -> 1
    [] ev = "filter" -> 2
    [] ev = "round" -> 3
    [] ev = "food" -> 4
    [] ev = "stats" -> 5

Once(ev) == Cardinality({p \in 1..Len(phaseLog) : phaseLog[p].ev = ev}) <= 1

(* C6 as amended: within one tick the phases run in the order per-creature
   update, removal of the destroyed creatures, interactions, food consumption,
   stats, each finishing before the next starts and none entered twice; the
   per-creature update visits every creature once, in collection order, and
   runs that creature's economy step and then at once its movement step, so
   economy and movement are not two phases. *)
C6_UpdateRunsEconomyAndMovementPerCreature ==
  /\ \A p, q \in 1..Len(phaseLog) :
       p < q => CodePhase(phaseLog[p].ev) <= CodePhase(phaseLog[q].ev)
  /\ Once("filter") /\ Once("food") /\ Once("stats")
  /\ \A p \in 1..Len(phaseLog) :
       /\ phaseLog[p].ev = "economy" =>
            /\ EventsOf("economy", phaseLog[p].id) = {p}
            /\ p < Len(phaseLog)
            /\ phaseLog[p + 1].id = phaseLog[p].id
            /\ phaseLog[p + 1].ev \in {"destroy", "reproduce", "movement"}
       /\ phaseLog[p].ev = "reproduce" =>
            /\ p < Len(phaseLog)
            /\ phaseLog[p + 1].id = phaseLog[p].id
            /\ phaseLog[p + 1].ev = "movement"
       /\ phaseLog[p].ev \in {"destroy", "reproduce", "movement"} =>
            /\ p > 1
            /\ phaseLog[p - 1].id = phaseLog[p].id
            /\ phaseLog[p - 1].ev \in {"economy", "reproduce"}
  /\ (pc = "idle" /\ ticks > 0) =>
       /\ phaseLog[Len(phaseLog)].ev = "stats"
       /\ \E p \in 1..Len(phaseLog) : phaseLog[p].ev = "filter"
       /\ \E p \in 1..Len(phaseLog) : phaseLog[p].ev = "food"
  /\ pc = "stats" => phaseLog[Len(phaseLog)].ev = "food"
  /\ pc \in {"interact", "food"} => Once("filter") /\ ~(\E p \in 1..Len(phaseLog) : phaseLog[p].ev = "stats")

\* a frame has finished in which several creatures were updated, one moved
\* before a later one's economy step, and a round was resolved
C6_Witness ==
  /\ pc = "idle"
  /\ \E p, q \in 1..Len(phaseLog) :
       p < q /\ phaseLog[p].ev = "movement" /\ phaseLog[q].ev = "economy"
  /\ \E p \in 1..Len(phaseLog) : phaseLog[p].ev = "round"

-----------------------------------------------------------------------------
(* C7: for every creature and every opponent, the stored history never holds
   more than 10 entries and, after n recorded observations, equals the most
   recent min(n, 10) recorded values in recording order (the oldest evicted
   first); after 15 records exactly the last 10 remain. *)
C7_MemoryKeepsTheLastTenRecords ==
  \A k \in 1..Len(creatures) :
    /\ \A opp \in DOMAIN creatures[k].memory :
         LET stored == creatures[k].memory[opp]
             saved == PastMoves(recorded, <<creatures[k].id, opp>>)
         IN /\ Len(stored) <= 10
            /\ Len(stored) = Min2(Len(saved), 10)
            /\ stored = LastN(saved, 10)
            /\ Len(saved) = 15 => stored = SubSeq(saved, 6, 15)
    /\ \A key \in DOMAIN recorded :
         key[1] = creatures[k].id => key[2] \in DOMAIN creatures[k].memory

\* a creature has recorded 15 observations of one opponent, not all alike,
\* and its history of that opponent has 10 entries
C7_Witness ==
  \E k \in 1..Len(creatures) : \E opp \in DOMAIN creatures[k].memory :
    LET saved == PastMoves(recorded, <<creatures[k].id, opp>>)
    IN /\ Len(saved) = 15
       /\ Len(creatures[k].memory[opp]) = 10
       /\ \E p, q \in 1..5 : saved[p] # saved[q + 5]

-----------------------------------------------------------------------------
(* C8: when the reproduction check fires for a creature (its resources after
   that tick's drains are at least reproductionThreshold), the parent's
   resources fall by exactly reproductionCost, exactly one new creature is
   added with resources 100, an empty memory and the parent's strategy,
   generationCount rises by exactly one, and no creature produces more than
   one offspring in a tick. *)

\* the creature about to be updated passes the reproduction check
ReproductionFires ==
  /\ pc = "creatures"
  /\ idx <= n0
  /\ ~AtOrBelowThreshold(CurrentResources(creatures[idx].resources, Len(creatures), dt))
  /\ CurrentResources(creatures[idx].resources, Len(creatures), dt)
       >= cfg.REPRODUCTION_THRESHOLD * Milli

C8_ReproductionAddsOneOffspring ==
  [][ReproductionFires =>
       LET drained == CurrentResources(creatures[idx].resources, Len(creatures), dt)
           offspring == creatures'[Len(creatures')]
       IN /\ creatures'[idx].resources = drained - cfg.REPRODUCTION_COST * Milli
          /\ Len(creatures') = Len(creatures) + 1
          /\ \A k \in 1..Len(creatures) : k # idx => creatures'[k] = creatures[k]
          /\ offspring.resources = 100 * Milli
          /\ DOMAIN offspring.memory = {}
          /\ offspring.strategy = creatures[idx].strategy
          /\ offspring.active
          /\ \A k \in 1..Len(creatures) : creatures[k].id # offspring.id
          /\ generationCount' = generationCount + 1
          /\ \A k \in 1..Len(creatures') :
               Cardinality({p \in 1..Len(phaseLog') :
                              /\ phaseLog'[p].ev = "reproduce"
                              /\ phaseLog'[p].id = creatures'[k].id}) <= 1]_vars

\* a creature has reproduced in this tick, from resources above the threshold
\* that an interaction payoff gave it, and its offspring is in the collection
C8_Witness ==
  /\ generationCount >= 1
  /\ \E p \in 1..Len(phaseLog) :
       /\ phaseLog[p].ev = "reproduce"
       /\ \E k, o \in 1..Len(creatures) :
            /\ creatures[k].id = phaseLog[p].id
            /\ creatures[o].id = phaseLog[p].other
            /\ creatures[k].interactionCount >= 1
            /\ creatures[o].strategy = creatures[k].strategy

-----------------------------------------------------------------------------
(* C9: every resource change has a fixed sign by its cause: maintenance drain,
   density drain and reproduction cost strictly decrease a creature's
   resources, and every interaction payoff and every food pickup strictly
   increases the receiving creature's resources. *)

\* the step is updateCreature for creatures[idx]
EconomyStep == pc = "creatures" /\ idx <= n0

\* the step is one handleIPDRound, between creatures[pi] and creatures[pj]
RoundStep == pc = "interact" /\ Len(rounds') = Len(rounds) + 1

\* the step is handleFoodConsumption
FoodStep == pc = "food"

\* creature k is within pickup distance of some food item
Picks(k) == \E i \in 1..Len(foodGroup) : InPickup(creatures[k], foodGroup[i])

-----------------------------------------------------------------------------
(* C10: for any creature that has no interaction and eats no food in a tick,
   resources after the tick equal resources before minus maintenanceCost*dt,
   minus (population - carryingCapacity)*overpopulationFactor*dt exactly when
   population exceeds carryingCapacity; the density term is linear in the
   excess (doubling the excess doubles it). *)

\* the largest population excess the linearity is stated for
MaxExcess == 4

\* the resources of the creature with this id, in the collection cs
ResourcesOf(cs, id) ==
  LET k == CHOOSE k \in 1..Len(cs) : cs[k].id = id IN cs[k].resources

\* outside its own economy step, its rounds and its food pickups, a creature's
\* resources do not change
OnlyItsOwnStepsChangeResources ==
  /\ EconomyStep =>
       \A k \in 1..Len(creatures) :
         k # idx => creatures'[k].resources = creatures[k].resources
  /\ RoundStep =>
       \A k \in 1..Len(creatures) :
         k \notin {pi, pj} => creatures'[k].resources = creatures[k].resources
  /\ FoodStep =>
       \A k \in 1..Len(creatures) :
         ~Picks(k) => creatures'[k].resources = creatures[k].resources
  /\ ~(EconomyStep \/ RoundStep \/ FoodStep) =>
       \A k \in 1..Len(creatures') :
         /\ \E j \in 1..Len(creatures) : creatures[j].id = creatures'[k].id
         /\ creatures'[k].resources = ResourcesOf(creatures, creatures'[k].id)

\* the density term of the claim
DensityTerm(population, delta) ==
  IF population > cfg.CARRYING_CAPACITY
  THEN (population - cfg.CARRYING_CAPACITY) * cfg.OVERPOPULATION_FACTOR * delta
  ELSE 0

Linear ==
  \A excess \in 1..MaxExcess :
    ExtraDrain(cfg.CARRYING_CAPACITY + 2 * excess, dt)
      = 2 * ExtraDrain(cfg.CARRYING_CAPACITY + excess, dt)

\* as claimed
C10_TickDrainsMaintenanceAndDensity ==
  [][/\ OnlyItsOwnStepsChangeResources
     /\ EconomyStep =>
          creatures'[idx].resources
            = creatures[idx].resources - cfg.MAINTENANCE_COST * dt
                - DensityTerm(Len(creatures), dt)
     /\ Linear]_vars

(* C10 as amended: for any creature that has no interaction and eats no food in
   a tick, resources after the tick equal resources before minus
   maintenanceCost*dt, minus (population - carryingCapacity) *
   overpopulationFactor*dt exactly when population exceeds carryingCapacity,
   minus reproductionCost when the creature reproduces in that tick, provided
   population is at most twice carryingCapacity; when population exceeds
   twice carryingCapacity the resources after the tick are 0 whatever they
   were before. Population is the size of the collection at the moment of that
   creature's update (offspring added and creatures destroyed earlier in the
   same pass count). The density term is linear in the excess. *)
C10_TickDrainsUnlessCutOffOrReproducing ==
  [][/\ OnlyItsOwnStepsChangeResources
     /\ EconomyStep =>
          LET population == Len(creatures)
              drained == creatures[idx].resources - cfg.MAINTENANCE_COST * dt
                           - DensityTerm(population, dt)
              reproduced == Len(creatures') > Len(creatures)
          IN /\ population > 2 * cfg.CARRYING_CAPACITY =>
                  creatures'[idx].resources = 0 /\ ~reproduced
             /\ (population <= 2 * cfg.CARRYING_CAPACITY /\ ~reproduced) =>
                  creatures'[idx].resources = drained
             /\ (population <= 2 * cfg.CARRYING_CAPACITY /\ reproduced) =>
                  creatures'[idx].resources = drained - cfg.REPRODUCTION_COST * Milli
             /\ reproduced <=>
                  /\ population <= 2 * cfg.CARRYING_CAPACITY
                  /\ drained >= cfg.REPRODUCTION_THRESHOLD * Milli
     /\ Linear]_vars

\* a frame has finished in which a creature that played no round and ate no
\* food was drained while the population exceeded carryingCapacity
C10_Witness ==
  /\ pc = "idle"
  /\ ticks = 1
  /\ Len(creatures) > cfg.CARRYING_CAPACITY
  /\ Len(creatures) <= 2 * cfg.CARRYING_CAPACITY
  /\ \E k \in 1..Len(creatures) :
       /\ creatures[k].interactionCount = 0
       /\ creatures[k].resources
            = StartResources * Milli - cfg.MAINTENANCE_COST * dt
                - DensityTerm(Len(creatures), dt)
       /\ creatures[k].resources < StartResources * Milli - cfg.MAINTENANCE_COST * dt

-----------------------------------------------------------------------------
(* C11: with zero noise, a tit-for-tat creature cooperates in its first round
   against any opponent it has no history with (the history of an unseen
   opponent is an empty sequence, never absent), and against an always-defect
   opponent it defects in every later round with that opponent. *)

NoNoise == cfg.ERROR_RATE_INTERACTION = 0 /\ cfg.ERROR_RATE_MEMORY = 0

C11_TitForTatOpensThenPunishesDefector ==
  NoNoise =>
    /\ \A k \in 1..Len(rounds) :
         LET r == rounds[k]
         IN /\ r.strategyA = "tit-for-tat" =>
                 /\ MetBefore(k, r.a, r.b) = 0 => r.actionA = "C"
                 /\ (MetBefore(k, r.a, r.b) > 0 /\ r.strategyB = "always defect")
                      => r.actionA = "D"
            /\ r.strategyB = "tit-for-tat" =>
                 /\ MetBefore(k, r.b, r.a) = 0 => r.actionB = "C"
                 /\ (MetBefore(k, r.b, r.a) > 0 /\ r.strategyA = "always defect")
                      => r.actionB = "D"
    /\ \A k, o \in 1..Len(creatures) :
         creatures[o].id \notin DOMAIN creatures[k].memory
           => /\ PastMoves(creatures[k].memory, creatures[o].id) = <<>>
              /\ MetBefore(Len(rounds) + 1, creatures[k].id, creatures[o].id) = 0

\* a tit-for-tat creature has played an always-defect creature four times
C11_Witness ==
  /\ NoNoise
  /\ \E k \in 1..Len(rounds) :
       /\ rounds[k].strategyA = "tit-for-tat"
       /\ rounds[k].strategyB = "always defect"
       /\ MetBefore(k, rounds[k].a, rounds[k].b) = 3
       /\ rounds[k].actionA = "D"

-----------------------------------------------------------------------------
(* C12: the win-stay-lose-shift decision, without noise, is: repeat lastAction
   if lastPayoff > 0, otherwise play the opposite action, starting from
   (lastAction = Cooperate, lastPayoff = +3); fed the payoffs +3, -1, +3, -2
   over four successive rounds the actions taken are Cooperate, Cooperate,
   Defect, Defect and the fifth action is Cooperate. *)

Opposite(action) == IF action = "C" THEN "D" ELSE "C"

\* the payoffs fed in the first n rounds
FedUpTo(n) == [k \in 1..n |-> rounds[k].fed]

\* the actions taken in the first n rounds
TakenUpTo(n) == [k \in 1..n |-> rounds[k].actionA]

C12_WinStayLoseShiftDecision ==
  /\ \A k \in 1..Len(rounds) :
       rounds[k].actionA =
         IF k = 1 THEN "C"
         ELSE IF rounds[k - 1].fed > 0 THEN rounds[k - 1].actionA
              ELSE Opposite(rounds[k - 1].actionA)
  /\ Len(rounds) = 0 =>
       /\ creatures[1].lastAction = "C"
       /\ creatures[1].lastPayoff = <<3 * Milli>>
       /\ GetAction(creatures[1], creatures[2], "C", FALSE) = "C"
  /\ (Len(rounds) >= 4 /\ FedUpTo(4) = <<3, -1, 3, -2>>) =>
       /\ TakenUpTo(4) = <<"C", "C", "D", "D">>
       /\ Len(rounds) = 4 => GetAction(creatures[1], creatures[2], "C", FALSE) = "C"
       /\ Len(rounds) >= 5 => rounds[5].actionA = "C"

\* the payoffs +3, -1, +3, -2 were fed and a fifth action was taken
C12_Witness ==
  /\ Len(rounds) = 5
  /\ FedUpTo(4) = <<3, -1, 3, -2>>
  /\ creatures[1].strategy = "win-stay-lose-shift"
  /\ creatures[1].interactionCount = 5

-----------------------------------------------------------------------------
(* C13: for every resolved round with executed actions (a, b), the resources
   and the score of A and of B each change by exactly the table entry for
   (a, b) -- CC = (+3, +3), CD = (-2, +5), DC = (+5, -2), DD = (-1, -1) --
   times the payoff scale; interactionCount of both rises by 1, and
   cooperationCount rises by 1 exactly for each creature whose executed action
   was Cooperate. *)

\* the table of the claim, for A
TableA(a, b) ==
  IF a = "C" THEN (IF b = "C" THEN 3 ELSE -2) ELSE (IF b = "C" THEN 5 ELSE -1)

\* the table of the claim, for B
TableB(a, b) == TableA(b, a)

\* payoff * (500 / INTERACTION_SPEED), in Milli
TimesScale(payoff) == (payoff * 500 * 1000) \div cfg.INTERACTION_SPEED

C13_RoundAppliesTableEntryTimesScale ==
  [][RoundStep =>
       LET played == rounds'[Len(rounds')]
           gainA == TimesScale(TableA(played.actionA, played.actionB))
           gainB == TimesScale(TableB(played.actionA, played.actionB))
           A == creatures[pi]
           B == creatures[pj]
           A2 == creatures'[pi]
           B2 == creatures'[pj]
       IN /\ played.a = A.id /\ played.b = B.id
          /\ A2.resources = A.resources + gainA
          /\ B2.resources = B.resources + gainB
          /\ A2.score = A.score + gainA
          /\ B2.score = B.score + gainB
          /\ A2.interactionCount = A.interactionCount + 1
          /\ B2.interactionCount = B.interactionCount + 1
          /\ A2.cooperationCount
               = A.cooperationCount + (IF played.actionA = "C" THEN 1 ELSE 0)
          /\ B2.cooperationCount
               = B.cooperationCount + (IF played.actionB = "C" THEN 1 ELSE 0)
          /\ totalInteractions' = totalInteractions + 1]_vars

\* rounds with unequal payoffs in both orders (A exploited and A exploiting)
\* and a round of mutual cooperation have been resolved
C13_Witness ==
  /\ \E r \in 1..Len(rounds) : rounds[r].actionA = "C" /\ rounds[r].actionB = "D"
  /\ \E r \in 1..Len(rounds) : rounds[r].actionA = "D" /\ rounds[r].actionB = "C"
  /\ \E k \in 1..Len(creatures) :
       creatures[k].cooperationCount > 0 /\ creatures[k].score # 0

-----------------------------------------------------------------------------
(* C14: there is no fixed per-tick partner limit: within a single tick one
   creature can take part in more than one interaction, the only bound on its
   interactions in a tick being the cooldown test. *)

\* creature c has not interacted, or its last interaction is at least
\* interactionCooldown ago
CooledDown(c) == time - c.lastInteractionTime >= 1010 - cfg.INTERACTION_SPEED

\* creature c took part in a round of the running tick
PlayedThisTick(c) == c.lastInteractionTime = time /\ c.interactionCount > 0

\* as claimed: a creature that was cooled down when the tick began is paired
\* with every creature in range that was too, whether or not it has already
\* played in this tick
C14_SeveralInteractionsPerTick ==
  [][pc = "interact" =>
       LET A == creatures[pi]
           B == creatures[pj]
       IN (/\ InRange(A, B)
           /\ CooledDown(A) \/ PlayedThisTick(A)
           /\ CooledDown(B) \/ PlayedThisTick(B)) => RoundStep]_vars

\* the rounds of the running tick creature id took part in
RoundsThisTick(id) == {r \in RoundsOf(id) : rounds[r].time = time}

(* C14 as amended: there is no fixed per-tick partner limit, the only test on a
   pair in range being the cooldown test on both members; but that test
   compares the tick's time with lastInteractionTime, which a round sets to
   that same time, so with interactionCooldown > 0 (1010 - INTERACTION_SPEED,
   at least 10) a creature takes part in at most one interaction per tick. *)
C14_CooldownAllowsOneInteractionPerTick ==
  [][pc = "interact" =>
       LET A == creatures[pi]
           B == creatures[pj]
       IN /\ 1010 - cfg.INTERACTION_SPEED > 0
          /\ RoundStep <=> (InRange(A, B) /\ CooledDown(A) /\ CooledDown(B))
          /\ \A k \in 1..Len(creatures) :
               Cardinality({r \in 1..Len(rounds') :
                              /\ rounds'[r].time = time
                              /\ creatures[k].id \in {rounds'[r].a, rounds'[r].b}}) <= 1]_vars

\* interaction matching has finished; a creature that played in this tick had a
\* second creature in range that was cooled down, and no round with it
C14_Witness ==
  /\ pc = "food"
  /\ \E k, m \in 1..Len(creatures) :
       /\ k # m
       /\ PlayedThisTick(creatures[k])
       /\ InRange(creatures[k], creatures[m])
       /\ CooledDown(creatures[m])
       /\ Cardinality(RoundsThisTick(creatures[k].id)) = 1
       /\ RoundsThisTick(creatures[m].id) = {}

-----------------------------------------------------------------------------
(* C15: in each tick the matcher examines every unordered pair of live
   creatures exactly once, in ascending (i, j) collection-index order, so a
   pair resolves at most one round per tick; under contention the pair earlier
   in scan order wins: an in-range pair is skipped in this tick when one of
   its members already interacted earlier in the same scan
   (interactionCooldown > 0). *)

\* the scan is at the last pair of a collection of n creatures
LastPair(i, j, n) == i = n - 1 /\ j = n

C15_ScanVisitsEveryPairOnceInOrder ==
  [][/\ pc = "filter" =>
          IF Len(creatures') >= 2
          THEN pc' = "interact" /\ pi' = 1 /\ pj' = 2
          ELSE pc' = "food"
     /\ pc = "interact" =>
          LET n == Len(creatures)
              A == creatures[pi]
              B == creatures[pj]
          IN /\ 1 <= pi /\ pi < pj /\ pj <= n
             /\ A.active /\ B.active
             /\ Len(creatures') = n
             /\ \A k \in 1..n : creatures'[k].id = creatures[k].id
             /\ IF LastPair(pi, pj, n) THEN pc' = "food"
                ELSE /\ pc' = "interact"
                     /\ IF pj < n THEN pi' = pi /\ pj' = pj + 1
                        ELSE pi' = pi + 1 /\ pj' = pi + 2
             /\ (PlayedThisTick(A) \/ PlayedThisTick(B)) => ~RoundStep
             /\ (/\ InRange(A, B)
                 /\ CooledDown(A) /\ CooledDown(B)) => RoundStep
             /\ \A r, q \in 1..Len(rounds') :
                  (r < q /\ rounds'[r].time = rounds'[q].time)
                    => {rounds'[r].a, rounds'[r].b} # {rounds'[q].a, rounds'[q].b}]_vars

\* the scan of three or more creatures has reached a pair that is in range and
\* whose second member never interacted, after its first member played in this
\* scan with a creature earlier in the collection
C15_Witness ==
  /\ pc = "interact"
  /\ Len(creatures) >= 3
  /\ pi = 2
  /\ PlayedThisTick(creatures[pi])
  /\ creatures[pi].lastPartner = creatures[1].id
  /\ InRange(creatures[pi], creatures[pj])
  /\ creatures[pj].interactionCount = 0

-----------------------------------------------------------------------------
(* C16: resetting a run starts a fresh run in which no state of the previous
   run survives: after the reset the collection holds only the newly seeded
   creatures, and generationCount, simulationTime and totalInteractions start
   again from 0. *)
C16_ResetStartsAFreshRun ==
  pc = "reset" =>
    /\ Len(creatures) = Len(SeedStrategies(cfg))
    /\ \A k \in 1..Len(creatures) :
         /\ creatures[k].active
         /\ creatures[k].strategy = SeedStrategies(cfg)[k]
         /\ creatures[k].resources = 100 * Milli
         /\ creatures[k].interactionCount = 0
    /\ generationCount = 0
    /\ simulationTime = 0
    /\ totalInteractions = 0
    /\ foodGroup = <<>>

-----------------------------------------------------------------------------
(* C17: death is terminal: a creature destroyed in the economy phase is removed
   from the collection before the interaction matching of the same tick, never
   takes part in a later interaction, never consumes food and never re-enters
   the collection; a creature leaves the collection only through the
   starvation check (resources <= minimumResource). *)

\* the ids of the creatures of collection cs
Ids(cs) == {cs[k].id : k \in 1..Len(cs)}

\* the ids of the creatures of cs that have not been destroyed
LiveIds(cs) == {cs[k].id : k \in {m \in 1..Len(cs) : cs[m].active}}

C17_DeathIsTerminal ==
  [][/\ \A id \in Ids(creatures) : id < nextId
     /\ Ids(creatures') \subseteq Ids(creatures) \cup {nextId}
     /\ LiveIds(creatures') \subseteq LiveIds(creatures) \cup {nextId}
     /\ nextId' >= nextId
     /\ nextId \in Ids(creatures') => nextId' = nextId + 1
     /\ Ids(creatures) \ Ids(creatures') # {} => pc = "filter"
     /\ pc = "filter" => Ids(creatures') = LiveIds(creatures)
     /\ \A k \in 1..Len(creatures) :
          (creatures[k].active /\ creatures[k].id \notin LiveIds(creatures')) =>
            /\ EconomyStep /\ k = idx
            /\ creatures'[k].resources <= cfg.MINIMUM_RESOURCE * Milli
     /\ EconomyStep =>
          (creatures'[idx].resources <= cfg.MINIMUM_RESOURCE * Milli
             <=> ~creatures'[idx].active)
     /\ pc \in {"interact", "food", "stats", "idle"} =>
          Ids(creatures) = LiveIds(creatures)
     /\ RoundStep =>
          {rounds'[Len(rounds')].a, rounds'[Len(rounds')].b} \subseteq LiveIds(creatures)
     /\ FoodStep =>
          \A k \in 1..Len(creatures) :
            creatures'[k].resources # creatures[k].resources => creatures[k].active]_vars

\* a creature that had played a round was destroyed in this tick's economy
\* phase and is out of the collection; the creatures left have played a round
\* without it
C17_Witness ==
  /\ pc = "stats"
  /\ \E p \in 1..Len(phaseLog) :
       /\ phaseLog[p].ev = "destroy"
       /\ phaseLog[p].id \notin Ids(creatures)
       /\ RoundsOf(phaseLog[p].id) # {}
       /\ \A r \in RoundsOf(phaseLog[p].id) : rounds[r].time < time
  /\ \E r \in 1..Len(rounds) : rounds[r].time = time

-----------------------------------------------------------------------------
(* C18: a round between creatures A and B changes no field of any third
   creature and, among all memories, changes only A's history for B and B's
   history for A; the economy and movement step of one creature changes no
   field of any other existing creature. *)

\* memory after differs from memory before at most in the history for id
OnlyHistoryFor(before, after, id) ==
  /\ DOMAIN after = DOMAIN before \cup {id}
  /\ \A other \in DOMAIN before : other # id => after[other] = before[other]

C18_StepsTouchOnlyTheirOwnCreatures ==
  [][/\ RoundStep =>
          /\ Len(creatures') = Len(creatures)
          /\ \A k \in 1..Len(creatures) :
               k \notin {pi, pj} => creatures'[k] = creatures[k]
          /\ OnlyHistoryFor(creatures[pi].memory, creatures'[pi].memory, creatures[pj].id)
          /\ OnlyHistoryFor(creatures[pj].memory, creatures'[pj].memory, creatures[pi].id)
     /\ EconomyStep =>
          /\ Len(creatures') >= Len(creatures)
          /\ \A k \in 1..Len(creatures) :
               k # idx => creatures'[k] = creatures[k]
          /\ creatures'[idx].memory = creatures[idx].memory]_vars

\* a creature holding a history of one opponent has played a round with a
\* second opponent while a third creature was in the collection
C18_Witness ==
  /\ Len(creatures) >= 3
  /\ \E k \in 1..Len(creatures) :
       /\ Cardinality(DOMAIN creatures[k].memory) >= 2
       /\ creatures[k].lastInteractionTime = time
  /\ pc = "food"

-----------------------------------------------------------------------------
(* C19: a creature's strategy never changes after creation, every offspring
   carries its parent's strategy, and so in every reachable state every
   creature's strategy is one of the enabled strategies, which are cases of
   the switch of getAction: its default branch is never taken. *)

\* the strategies the switch of getAction has a case for
KnownStrategies == {STRATEGY_ORDER[k] : k \in 1..Len(STRATEGY_ORDER)}

AllEnabled(cs) ==
  \A k \in 1..Len(cs) : cs[k].strategy \in cfg.enabledStrategies \cap KnownStrategies

C19_StrategyIsFixedInheritedAndEnabled ==
  [][/\ AllEnabled(creatures) /\ AllEnabled(creatures')
     /\ \A k \in 1..Len(creatures) : \A m \in 1..Len(creatures') :
          creatures'[m].id = creatures[k].id =>
            creatures'[m].strategy = creatures[k].strategy
     /\ \A m \in 1..Len(creatures') :
          creatures'[m].id \notin Ids(creatures) =>
            /\ EconomyStep
            /\ creatures'[m].strategy = creatures[idx].strategy
     /\ RoundStep =>
          \A k \in {pi, pj} : creatures[k].strategy \in KnownStrategies]_vars

\* an offspring of a parent that is not of the first strategy has played a round
C19_Witness ==
  \E r \in 1..Len(rounds) : \E k \in 1..Len(creatures) :
    /\ creatures[k].id >= Len(SeedStrategies(cfg))
    /\ creatures[k].id \in {rounds[r].a, rounds[r].b}
    /\ creatures[k].strategy # STRATEGY_ORDER[1]

-----------------------------------------------------------------------------
(* C20: in every reachable state every creature's position is inside the
   rectangle [creatureRadius, width - creatureRadius] x [creatureRadius,
   height - creatureRadius] (initial spawn, offspring spawn, after every
   movement step), and a movement step that would cross a boundary negates
   the velocity of that axis and clamps the position. *)

InWorld(c) ==
  /\ cfg.CREATURE_RADIUS <= c.x /\ c.x <= env.width - cfg.CREATURE_RADIUS
  /\ cfg.CREATURE_RADIUS <= c.y /\ c.y <= env.height - cfg.CREATURE_RADIUS

\* where velocity v carries position p in delta ms
Carried(p, v, delta) == p + Trunc(v * delta, 1000)

Inside(p, limit) == cfg.CREATURE_RADIUS <= p /\ p <= limit - cfg.CREATURE_RADIUS

\* one axis of a movement step, seen from outside: either the position
\* advanced by the velocity the creature has after the step and stayed
\* inside, or the opposite of that velocity carried it outside and the
\* position is the nearest one inside
MovedOrBounced(p, pAfter, vAfter, limit, delta) ==
  \/ /\ Inside(Carried(p, vAfter, delta), limit)
     /\ pAfter = Carried(p, vAfter, delta)
  \/ /\ ~Inside(Carried(p, -vAfter, delta), limit)
     /\ pAfter = Clamp(Carried(p, -vAfter, delta),
                       cfg.CREATURE_RADIUS, limit - cfg.CREATURE_RADIUS)

C20_CreaturesStayInsideTheWorld ==
  [][/\ \A k \in 1..Len(creatures) : InWorld(creatures[k])
     /\ \A k \in 1..Len(creatures') : InWorld(creatures'[k])
     /\ (EconomyStep /\ creatures'[idx].active) =>
          /\ MovedOrBounced(creatures[idx].x, creatures'[idx].x,
                            creatures'[idx].velocityX, env.width, dt)
          /\ MovedOrBounced(creatures[idx].y, creatures'[idx].y,
                            creatures'[idx].velocityY, env.height, dt)]_vars

\* a creature moved against the bottom edge and came back with its vertical
\* velocity reversed, in a world where an offspring was just born on the
\* boundary (its jitter pointed out of the world)
C20_Witness ==
  /\ \E k \in 1..Len(creatures) :
       /\ creatures[k].y = env.height - cfg.CREATURE_RADIUS
       /\ creatures[k].velocityY < 0
       /\ creatures[k].age > 0
  /\ \E k \in 1..Len(creatures) :
       /\ creatures[k].id >= Len(SeedStrategies(cfg))
       /\ creatures[k].age = 0
       /\ creatures[k].x = env.width - cfg.CREATURE_RADIUS
       /\ creatures[k].y = env.height - cfg.CREATURE_RADIUS

-----------------------------------------------------------------------------
(* C21: at start the population holds exactly INITIAL_CREATURES_PER_STRATEGY
   creatures of each enabled strategy and none of a disabled one; with no
   strategy enabled the population is empty at start and stays empty, and
   no frame updates a creature, plays a round or bears an offspring. *)

CountOf(cs, strategy) ==
  Cardinality({k \in 1..Len(cs) : cs[k].strategy = strategy})

AtStart == ticks = 0 /\ pc = "idle"

C21_SeedsEnabledStrategiesOnly ==
  /\ AtStart =>
       \A strategy \in Strategies :
         CountOf(creatures, strategy) =
           IF strategy \in cfg.enabledStrategies
           THEN cfg.INITIAL_CREATURES_PER_STRATEGY ELSE 0
  /\ cfg.enabledStrategies = {} =>
       /\ creatures = <<>>
       /\ rounds = <<>>
       /\ totalInteractions = 0
       /\ generationCount = 0
       /\ pc \notin {"creatures", "interact"}
       /\ \A p \in 1..Len(phaseLog) : phaseLog[p].ev \in {"filter", "food", "stats"}

\* a run with no strategy enabled has completed all its frames, with food
\* lying in the empty world
C21_Witness ==
  /\ cfg.enabledStrategies = {}
  /\ ticks = env.maxTicks
  /\ pc = "idle"
  /\ simulationTime > 0
  /\ Len(phaseLog) = 3
  /\ foodGroup # <<>>

-----------------------------------------------------------------------------
(* C22: the population figure of a creature's density penalty and hard
   cutoff is the length of the collection at that moment of the economy
   loop, not the number of live creatures: it includes the offspring born
   to earlier creatures in the same frame and still counts the creatures
   destroyed earlier in the same frame (they are removed only after the
   loop), so two creatures with equal state can be drained differently in
   one frame depending on their order. *)

\* offspring born so far in this frame
BornThisFrame ==
  Cardinality({p \in 1..Len(phaseLog) : phaseLog[p].ev = "reproduce"})

\* creatures destroyed so far in this frame
DestroyedThisFrame ==
  Cardinality({p \in 1..Len(phaseLog) : phaseLog[p].ev = "destroy"})

\* resources after the drains of an economy step that counts figure creatures
DrainedWith(resources, figure, delta) ==
  IF figure > 2 * cfg.CARRYING_CAPACITY THEN 0
  ELSE resources - cfg.MAINTENANCE_COST * delta - DensityTerm(figure, delta)

C22_PopulationFigureIsCollectionLength ==
  [][EconomyStep =>
       LET figure == n0 + BornThisFrame
           paid == IF Len(creatures') > Len(creatures)
                   THEN cfg.REPRODUCTION_COST * Milli ELSE 0
       IN /\ Len(creatures) = figure
          /\ Cardinality(LiveIds(creatures)) = figure - DestroyedThisFrame
          /\ Len(creatures') >= Len(creatures)
          /\ creatures'[idx].resources + paid
               = DrainedWith(creatures[idx].resources, figure, dt)]_vars

\* the economy loop of a frame has ended; two creatures that never played,
\* of the same age, the first updated before an offspring was born and the
\* second after it, hold different resources, and a creature destroyed
\* before the second one's update is still in the collection
C22_Witness ==
  /\ pc = "filter"
  /\ Len(creatures) > n0
  /\ \E j, k \in 1..n0 :
       /\ j < k
       /\ creatures[j].active /\ creatures[k].active
       /\ creatures[j].interactionCount = 0 /\ creatures[k].interactionCount = 0
       /\ creatures[j].age = creatures[k].age
       /\ creatures[j].resources > creatures[k].resources
       /\ \E d \in 1..(k - 1) : ~creatures[d].active

-----------------------------------------------------------------------------
(* C23: when a creature's economy step finds the population above
   2 x carryingCapacity, its resources are set to 0 whatever they were, and
   with minimumResource >= 0 the creature is destroyed in that step without
   reproducing or moving. *)

AboveCutoff == Len(creatures) > 2 * cfg.CARRYING_CAPACITY

C23_CutoffZeroesAndDestroys ==
  [][(EconomyStep /\ AboveCutoff) =>
       /\ creatures'[idx].resources = 0
       /\ cfg.MINIMUM_RESOURCE >= 0 =>
            /\ ~creatures'[idx].active
            /\ Len(creatures') = Len(creatures)
            /\ generationCount' = generationCount
            /\ nextId' = nextId
            /\ creatures'[idx].x = creatures[idx].x
            /\ creatures'[idx].y = creatures[idx].y
            /\ creatures'[idx].velocityX = creatures[idx].velocityX
            /\ creatures'[idx].velocityY = creatures[idx].velocityY
            /\ creatures'[idx].lastVictim = creatures[idx].lastVictim
            /\ phaseLog' = phaseLog \o <<Event("economy", creatures[idx].id, NoId),
                                         Event("destroy", creatures[idx].id, NoId)>>]_vars

\* a creature whose payoffs had earned it a positive score was destroyed with
\* resources 0 in an economy loop that found more than 2 x carryingCapacity
\* creatures
C23_Witness ==
  /\ pc \in {"creatures", "filter"}
  /\ AboveCutoff
  /\ cfg.MINIMUM_RESOURCE >= 0
  /\ \E k \in 1..Len(creatures) :
       /\ ~creatures[k].active
       /\ creatures[k].resources = 0
       /\ creatures[k].score > 0
       /\ \E p \in 1..Len(phaseLog) :
            phaseLog[p] = Event("destroy", creatures[k].id, NoId)

-----------------------------------------------------------------------------
(* C24: if the collection holds more than 2 x carryingCapacity creatures when
   the economy loop of a frame starts (minimumResource >= 0), every creature
   is destroyed in that frame and the population is empty afterwards and
   forever: the cutoff does not trim the population back to capacity. *)

\* the economy loop of this frame started with more than 2 x carryingCapacity
StartedAboveCutoff ==
  /\ pc \in {"creatures", "filter"}
  /\ n0 > 2 * cfg.CARRYING_CAPACITY
  /\ cfg.MINIMUM_RESOURCE >= 0

C24_CutoffAtFrameStartIsExtinction ==
  [][/\ StartedAboveCutoff =>
          /\ Len(creatures) = n0
          /\ \A k \in 1..(idx - 1) : ~creatures[k].active
          /\ pc = "filter" => creatures' = <<>>
     /\ (StartedAboveCutoff /\ EconomyStep) =>
          /\ ~creatures'[idx].active
          /\ Len(creatures') = n0
     /\ (creatures = <<>> /\ ticks > 0) => creatures' = <<>>]_vars

\* a world seeded with more than 2 x carryingCapacity creatures has run all
\* its frames: it is empty, and no round was played and no offspring born
C24_Witness ==
  /\ Len(SeedStrategies(cfg)) > 2 * cfg.CARRYING_CAPACITY
  /\ pc = "idle"
  /\ ticks = env.maxTicks
  /\ creatures = <<>>
  /\ totalInteractions = 0
  /\ generationCount = 0

-----------------------------------------------------------------------------
(* C25: an offspring created during the economy loop of a frame is not aged,
   drained or moved in that frame (the loop does not visit creatures appended
   during it), but it is not on cooldown at birth (lastInteractionTime =
   -interactionCooldown), so it can take part in a round and eat food in the
   frame of its birth. *)

\* ids of the offspring born so far in this frame
BornIds ==
  {phaseLog[p].other : p \in {q \in 1..Len(phaseLog) : phaseLog[q].ev = "reproduce"}}

C25_OffspringSkipsEconomyButMayPlayAndEat ==
  [][/\ EconomyStep =>
          /\ idx <= n0
          /\ \A k \in (n0 + 1)..Len(creatures) :
               /\ creatures[k].id \in BornIds
               /\ creatures'[k] = creatures[k]
          /\ Len(creatures') > Len(creatures) =>
               LET offspring == creatures'[Len(creatures')]
               IN /\ offspring.age = 0
                  /\ offspring.resources = StartResources * Milli
                  /\ offspring.velocityX = 0 /\ offspring.velocityY = 0
                  /\ offspring.lastInteractionTime = -InteractionCooldown
                  /\ ~OnCooldown(offspring, time)
     /\ pc \in {"creatures", "filter", "interact"} =>
          \A k \in 1..Len(creatures) :
            (creatures[k].id \in BornIds /\ creatures[k].interactionCount = 0) =>
              /\ creatures[k].age = 0
              /\ creatures[k].resources = StartResources * Milli
              /\ ~OnCooldown(creatures[k], time)]_vars

\* at the end of the frame of its birth an offspring, still of age 0, has
\* played a round and eaten food
C25_Witness ==
  /\ pc = "stats"
  /\ \E k \in 1..Len(creatures) :
       /\ creatures[k].id \in BornIds
       /\ creatures[k].age = 0
       /\ creatures[k].interactionCount = 1
       /\ creatures[k].lastInteractionTime = time
       /\ creatures[k].resources
            >= StartResources * Milli + creatures[k].score + cfg.FOOD_VALUE * Milli

-----------------------------------------------------------------------------
(* C26: a win-stay-lose-shift creature's lastAction/lastPayoff are one state
   per creature, overwritten after every round with any opponent by its
   executed action and received payoff, so its action against an opponent is
   determined by the outcome of its most recent round even when that round
   was against another opponent; the lastAction/lastPayoff of creatures of
   any other strategy are never written. *)

Shifter(c) == c.strategy = "win-stay-lose-shift"

\* what the round just played did to participant k, who executed action
ShiftStateAfter(k, action) ==
  IF Shifter(creatures[k])
  THEN /\ creatures'[k].lastAction = action
       /\ creatures'[k].lastPayoff
            = <<creatures'[k].resources - creatures[k].resources>>
  ELSE /\ creatures'[k].lastAction = creatures[k].lastAction
       /\ creatures'[k].lastPayoff = creatures[k].lastPayoff

\* the action a win-stay-lose-shift creature intends, from its own state only
ShiftIntends(c) ==
  IF c.lastPayoff[1] > 0 THEN c.lastAction ELSE Opposite(c.lastAction)

NeverWritten(cs) ==
  \A k \in 1..Len(cs) :
    ~Shifter(cs[k]) => cs[k].lastAction = Undefined /\ cs[k].lastPayoff = <<>>

C26_ShiftStateIsPerCreature ==
  [][/\ NeverWritten(creatures) /\ NeverWritten(creatures')
     /\ RoundStep =>
          LET played == rounds'[Len(rounds')]
          IN /\ ShiftStateAfter(pi, played.actionA)
             /\ ShiftStateAfter(pj, played.actionB)
             /\ Shifter(creatures[pi]) => played.intendedA = ShiftIntends(creatures[pi])
             /\ Shifter(creatures[pj]) => played.intendedB = ShiftIntends(creatures[pj])]_vars

\* a win-stay-lose-shift creature that defected against one opponent and won
\* has met a second opponent for the first time and intended to defect
C26_Witness ==
  \E k \in 1..Len(creatures) : \E r1, r2 \in 1..Len(rounds) :
    /\ Shifter(creatures[k])
    /\ r1 < r2
    /\ rounds[r1].a = creatures[k].id
    /\ rounds[r2].a = creatures[k].id
    /\ rounds[r1].b # rounds[r2].b
    /\ rounds[r1].actionA = "D" /\ rounds[r1].actionB = "C"
    /\ rounds[r2].intendedA = "D"
    /\ \A r \in 1..(r2 - 1) :
         /\ creatures[k].id \in {rounds[r].a, rounds[r].b} => r = r1
         /\ rounds[r2].b \notin {rounds[r].a, rounds[r].b}

-----------------------------------------------------------------------------
(* C27: after a round, a creature that received a negative payoff has
   lastHarmer set to the other creature's position at the time of the round
   and is the other creature's lastVictim; a creature that received a
   non-negative payoff keeps its lastHarmer and does not become the other's
   lastVictim, so a round of mutual cooperation changes no lastHarmer and no
   lastVictim. *)

\* the round just played, seen from participant me against participant other
HarmTracked(me, other) ==
  LET payoff == creatures'[me].resources - creatures[me].resources
  IN IF payoff < 0
     THEN /\ creatures'[me].lastHarmer = [x |-> creatures[other].x, y |-> creatures[other].y]
          /\ creatures'[other].lastVictim = creatures[me].id
     ELSE /\ creatures'[me].lastHarmer = creatures[me].lastHarmer
          /\ creatures'[other].lastVictim = creatures[other].lastVictim

C27_NegativePayoffMarksHarmerAndVictim ==
  [][RoundStep =>
       LET played == rounds'[Len(rounds')]
       IN /\ HarmTracked(pi, pj)
          /\ HarmTracked(pj, pi)
          /\ (played.actionA = "C" /\ played.actionB = "C") =>
               \A k \in 1..Len(creatures) :
                 /\ creatures'[k].lastHarmer = creatures[k].lastHarmer
                 /\ creatures'[k].lastVictim = creatures[k].lastVictim]_vars

\* in this frame a cooperator was exploited: it holds the defector's position
\* as lastHarmer and is the defector's lastVictim, while the defector has no
\* harmer; and two cooperators of an earlier round have neither
C27_Witness ==
  /\ pc = "food"
  /\ \E r \in 1..Len(rounds) : \E a, b \in 1..Len(creatures) :
       /\ rounds[r].time = time
       /\ rounds[r].actionA = "C" /\ rounds[r].actionB = "D"
       /\ creatures[a].id = rounds[r].a /\ creatures[b].id = rounds[r].b
       /\ creatures[a].lastHarmer = [x |-> creatures[b].x, y |-> creatures[b].y]
       /\ creatures[b].lastVictim = creatures[a].id
       /\ creatures[b].lastHarmer = NoPoint
       /\ creatures[a].lastVictim = NoId
  /\ \E r \in 1..Len(rounds) : \E a \in 1..Len(creatures) :
       /\ rounds[r].actionA = "C" /\ rounds[r].actionB = "C"
       /\ creatures[a].id = rounds[r].a
       /\ creatures[a].interactionCount = 1
       /\ creatures[a].lastHarmer = NoPoint
       /\ creatures[a].lastVictim = NoId

-----------------------------------------------------------------------------
(* C28: no creature receives a chase force toward a creature that has been
   destroyed: once its lastVictim is dead the chase component contributes
   nothing, and the reference is cleared at the creature's next movement
   step whatever speedChase is. *)

\* creature c holds a victim that is destroyed or gone from the collection
HoldsDeadVictim(c) == c.lastVictim # NoId /\ c.lastVictim \notin LiveIds(creatures)

\* the velocity after the movement step of c is the blend of its old
\* velocity with the wander, food and flee components only
VelocityWithoutChase(c, after) ==
  \E angle \in env.angles :
    LET vx == WanderForce(angle).x + FoodForce(c, foodGroup).x + FleeForce(c).x
        vy == WanderForce(angle).y + FoodForce(c, foodGroup).y + FleeForce(c).y
        bx == Blend(c.velocityX, vx)
        by == Blend(c.velocityY, vy)
    IN /\ after.velocityX \in {LimitSpeed(bx, bx, by), -LimitSpeed(bx, bx, by)}
       /\ after.velocityY \in {LimitSpeed(by, bx, by), -LimitSpeed(by, bx, by)}

C28_NoChaseOfTheDead ==
  [][(EconomyStep /\ creatures'[idx].active /\ HoldsDeadVictim(creatures[idx])) =>
       /\ creatures'[idx].lastVictim = NoId
       /\ VelocityWithoutChase(creatures[idx], creatures'[idx])]_vars

\* chasing is on; a creature that exploited another in an earlier round has
\* moved in this frame after its victim was destroyed, and holds no victim
C28_Witness ==
  /\ cfg.SPEED_CHASE > 0
  /\ pc \in {"creatures", "filter"}
  /\ \E k \in 1..Len(creatures) : \E r \in 1..Len(rounds) :
       /\ creatures[k].active
       /\ creatures[k].lastVictim = NoId
       /\ creatures[k].id = rounds[r].b
       /\ rounds[r].actionA = "C" /\ rounds[r].actionB = "D"
       /\ rounds[r].a \notin LiveIds(creatures)
       /\ \E p \in 1..Len(phaseLog) :
            phaseLog[p] = Event("movement", creatures[k].id, NoId)

-----------------------------------------------------------------------------
(* C29: the executed action is the strategy's intended action, flipped only
   by action noise, and it is the executed action that is used in the payoff
   lookup, counted in cooperationCount and passed to the opponent's memory;
   with errorRateInteraction = 0 the executed action equals the intended
   one, and with errorRateMemory = 0 the value the opponent records equals
   the executed action. *)

\* the actions the switch of getAction can yield for c against opponent
Intends(c, opponent) ==
  {IntendedAction(c.strategy, PastMoves(c.memory, opponent.id),
                  c.lastAction, c.lastPayoff, coin) : coin \in Coins(c)}

\* the newest entry of what creature c has saved about id
NewestSaved(c, id) == c.memory[id][Len(c.memory[id])]

\* the round just played, seen from participant me (who executed mine)
\* against participant other (who executed theirs)
ExecutedActionUsed(me, other, mine, theirs, entry) ==
  /\ cfg.ERROR_RATE_INTERACTION = 0 => mine \in Intends(creatures[me], creatures[other])
  /\ mine \notin Intends(creatures[me], creatures[other]) =>
       /\ cfg.ERROR_RATE_INTERACTION > 0
       /\ Flip(mine) \in Intends(creatures[me], creatures[other])
  /\ creatures'[me].resources - creatures[me].resources = Scaled(entry)
  /\ creatures'[me].score - creatures[me].score = Scaled(entry)
  /\ creatures'[me].cooperationCount - creatures[me].cooperationCount
       = IF mine = "C" THEN 1 ELSE 0
  /\ cfg.ERROR_RATE_MEMORY = 0 =>
       NewestSaved(creatures'[other], creatures[me].id) = mine
  /\ NewestSaved(creatures'[other], creatures[me].id) # mine =>
       cfg.ERROR_RATE_MEMORY > 0

C29_ExecutedActionIsTheOneUsed ==
  [][RoundStep =>
       LET played == rounds'[Len(rounds')]
       IN /\ ExecutedActionUsed(pi, pj, played.actionA, played.actionB,
                                PayoffEntry(played.actionA, played.actionB).A)
          /\ ExecutedActionUsed(pj, pi, played.actionB, played.actionA,
                                PayoffEntry(played.actionA, played.actionB).B)]_vars

\* with action noise on and memory noise off, an always-cooperate creature
\* has just executed Defect in its first round: it was paid for Defect, its
\* cooperationCount is 0 and its opponent saved Defect
C29_Witness ==
  /\ cfg.ERROR_RATE_INTERACTION > 0
  /\ cfg.ERROR_RATE_MEMORY = 0
  /\ pc \in {"interact", "food"}
  /\ rounds # <<>>
  /\ LET played == rounds[Len(rounds)]
     IN /\ played.time = time
        /\ played.strategyA = "always cooperate"
        /\ played.intendedA = "C"
        /\ played.actionA = "D"
        /\ \E a, b \in 1..Len(creatures) :
             /\ creatures[a].id = played.a /\ creatures[b].id = played.b
             /\ creatures[a].interactionCount = 1
             /\ creatures[a].cooperationCount = 0
             /\ creatures[a].score = Scaled(PayoffEntry("D", played.actionB).A)
             /\ NewestSaved(creatures[b], played.a) = "D"

-----------------------------------------------------------------------------
(* C30: no creature is permanently shut out of interactions by the fixed
   scan order: a creature that stays alive and within interactionDistance of
   at least one other live creature eventually takes part in a round. *)

\* the ids initializeCreatures gives to three creatures
SeedIds == 0..2

\* creature id is alive and within interactionDistance of another live creature
InReach(id) ==
  \E k, j \in 1..Len(creatures) :
    /\ k # j
    /\ creatures[k].id = id
    /\ creatures[k].active /\ creatures[j].active
    /\ InRange(creatures[k], creatures[j])

\* creature id has taken part in a round
HasPlayed(id) ==
  \E k \in 1..Len(creatures) :
    creatures[k].id = id /\ creatures[k].interactionCount > 0

C30_NoCreatureIsShutOut ==
  \A id \in SeedIds : <>(~InReach(id) \/ HasPlayed(id))

-----------------------------------------------------------------------------
(* C31: for any two creatures of the collection, the history each holds for
   the other has the same length, and that length is the number of rounds
   the two have played against each other, at most 10. *)

\* the number of rounds x and y have played against each other
Met(x, y) ==
  Cardinality({q \in 1..Len(rounds) : {rounds[q].a, rounds[q].b} = {x, y}})

C31_HistoriesOfAPairHaveTheSameLength ==
  \A i, j \in 1..Len(creatures) :
    i # j =>
      LET a == creatures[i]
          b == creatures[j]
      IN /\ Len(PastMoves(a.memory, b.id)) = Len(PastMoves(b.memory, a.id))
         /\ Len(PastMoves(a.memory, b.id)) = Min2(MemoryCapacity, Met(a.id, b.id))

\* two creatures have played more than 10 rounds against each other and each
\* holds 10 entries for the other
C31_Witness ==
  \E i, j \in 1..Len(creatures) :
    /\ i # j
    /\ Met(creatures[i].id, creatures[j].id) > MemoryCapacity
    /\ Len(PastMoves(creatures[i].memory, creatures[j].id)) = MemoryCapacity
    /\ Len(PastMoves(creatures[j].memory, creatures[i].id)) = MemoryCapacity

-----------------------------------------------------------------------------
(* C32: the diagnostic counters stay consistent in every reachable state:
   for every creature interactionCount = cooperationCount + defectionCount,
   defectionCount being the number of rounds in which the creature's executed
   action was Defect, and totalInteractions is half the sum of
   interactionCount over all creatures ever created (every creature's
   interactionCount is the number of rounds it took part in, and
   totalInteractions is the number of rounds). *)

\* the rounds in which creature id executed action
RoundsWith(id, action) ==
  {r \in 1..Len(rounds) :
     \/ rounds[r].a = id /\ rounds[r].actionA = action
     \/ rounds[r].b = id /\ rounds[r].actionB = action}

C32_CountersAreConsistent ==
  /\ \A k \in 1..Len(creatures) :
       LET c == creatures[k]
       IN /\ c.interactionCount = c.cooperationCount + c.defectionCount
          /\ c.defectionCount = Cardinality(RoundsWith(c.id, "D"))
          /\ c.interactionCount = Cardinality(RoundsOf(c.id))
  /\ totalInteractions = Len(rounds)

-----------------------------------------------------------------------------
(* C33: at the end of every tick the number of creatures in the collection
   is the number seeded at start plus generationCount minus the number of
   creatures destroyed so far; generationCount never decreases and grows by
   exactly one for each offspring created. *)

\* the number of creatures initializeCreatures created
SeededCount == Len(SeedStrategies(cfg))

\* the creatures destroy() was called on: those created (ids below nextId)
\* that are not, or not active, in the collection
DestroyedSoFar ==
  Cardinality({id \in 0..(nextId - 1) : id \notin LiveIds(creatures)})

\* update() has returned (or has not been called yet)
EndOfTick == pc = "idle"

C33_PopulationIsSeededPlusBornMinusDestroyed ==
  [][/\ EndOfTick' =>
          Len(creatures') = SeededCount + generationCount' - DestroyedSoFar'
     /\ generationCount' >= generationCount
     /\ generationCount' - generationCount
          = Cardinality(Ids(creatures') \ Ids(creatures))]_vars

\* a tick has ended after offspring were born and creatures were destroyed,
\* some of each in the tick that has just ended
C33_Witness ==
  /\ EndOfTick
  /\ generationCount > 0
  /\ DestroyedSoFar > 0
  /\ BornThisFrame > 0
  /\ DestroyedThisFrame > 0
  /\ Len(creatures) = SeededCount + generationCount - DestroyedSoFar

-----------------------------------------------------------------------------
(* C34: without noise, a tit-for-two-tats creature defects against an
   opponent exactly when its history for that opponent has at least two
   entries and the two most recent are both Defect; with an empty or
   one-entry history, or when either of the last two entries is Cooperate,
   it cooperates. *)

\* what creature me holds about creature other when the round begins
HistoryFor(me, other) == PastMoves(creatures[me].memory, creatures[other].id)

\* the round just played, seen from participant me who executed mine
TwoTatsRule(me, other, mine) ==
  (creatures[me].strategy = "tit-for-two-tats" /\ cfg.ERROR_RATE_INTERACTION = 0) =>
    /\ mine = "D" <=> LastN(HistoryFor(me, other), 2) = <<"D", "D">>
    /\ Len(HistoryFor(me, other)) < 2 => mine = "C"
    /\ Includes(LastN(HistoryFor(me, other), 2), "C") => mine = "C"

C34_TitForTwoTatsDefectsAfterTwoDefects ==
  [][RoundStep =>
       LET played == rounds'[Len(rounds')]
       IN /\ TwoTatsRule(pi, pj, played.actionA)
          /\ TwoTatsRule(pj, pi, played.actionB)]_vars

\* the tit-for-two-tats creature has cooperated while holding the single
\* entry Defect, has defected after two Defects in a row, and has cooperated
\* again when the newest entry was Cooperate after a Defect
C34_Witness ==
  \E i, j, k \in 1..Len(rounds) :
    /\ rounds[i].strategyA = "tit-for-two-tats"
    /\ SavedBefore(i, rounds[i].a, rounds[i].b) = <<"D">>
    /\ rounds[i].actionA = "C"
    /\ LastN(SavedBefore(j, rounds[j].a, rounds[j].b), 2) = <<"D", "D">>
    /\ rounds[j].actionA = "D"
    /\ LastN(SavedBefore(k, rounds[k].a, rounds[k].b), 2) = <<"D", "C">>
    /\ rounds[k].actionA = "C"

-----------------------------------------------------------------------------
(* C35: every food item is eventually removed, consumed by a creature or
   destroyed when its 15-second time-to-live expires; an item that was
   consumed or has expired never grants resources afterwards; and with
   FOOD_SPAWN_RATE = 0 no food item ever exists. *)

RECURSIVE TotalResources(_, _)
\* the sum of the resources of the first k creatures of cs
TotalResources(cs, k) ==
  IF k = 0 THEN 0 ELSE cs[k].resources + TotalResources(cs, k - 1)

\* the oldest food item (items are added at the end of the group) leaves it,
\* eaten in handleFoodConsumption or destroyed by its timer
OldestFoodRemoved ==
  /\ pc \in {"timers", "food"}
  /\ foodGroup # <<>>
  /\ foodGroup' = <<>> \/ foodGroup'[1] # foodGroup[1]

\* every item is removed: again and again there is no food, or again and
\* again the oldest item is removed (every item is the oldest at some time
\* unless it is removed before)
EveryFoodItemIsRemoved ==
  []<>(foodGroup = <<>>) \/ []<><<OldestFoodRemoved>>_vars

\* no item reaches handleFoodConsumption after its time-to-live
NoExpiredFoodIsServed ==
  [](pc = "food" =>
       \A i \in 1..Len(foodGroup) : time - foodGroup[i].born < FoodLifetime)

\* an item grants its value when it is consumed and not again: the resources
\* a consumption pass grants are the value of the items it removes
ConsumedFoodGrantsOnce ==
  [][FoodStep =>
       TotalResources(creatures', Len(creatures')) - TotalResources(creatures, Len(creatures))
         = (Len(foodGroup) - Len(foodGroup')) * cfg.FOOD_VALUE * Milli]_vars

NoFoodWithoutSpawnRate == [](cfg.FOOD_SPAWN_RATE = 0 => foodGroup = <<>>)

C35_FoodIsRemovedAndGrantsNothingAfterwards ==
  /\ EveryFoodItemIsRemoved
  /\ NoExpiredFoodIsServed
  /\ ConsumedFoodGrantsOnce
  /\ NoFoodWithoutSpawnRate

-----------------------------------------------------------------------------
(* C36: per-second rates are applied in proportion to the supplied dt: in one
   tick a creature's age grows by dt, its maintenance drain is
   maintenanceCost*dt, its density drain is excess*overpopulationFactor*dt
   and its displacement is velocity*dt, so for a creature with no
   interaction, food or reproduction and a constant population, two ticks of
   dt1 and dt2 give the same age and resources as one tick of dt1 + dt2.
   As claimed: the density drain is proportional to dt for every population
   above carryingCapacity. *)

\* the economy step of creatures[idx] leaves it with age + dt, with the
\* resources drained (less reproductionCost if it reproduced), and, unless
\* it was destroyed, displaced by velocity * dt on an axis on which it did
\* not reach the edge
TickScalesWithDt(drained) ==
  LET c == creatures[idx]
      d == creatures'[idx]
      paid == IF Len(creatures') > Len(creatures)
              THEN cfg.REPRODUCTION_COST * Milli ELSE 0
  IN /\ d.age = c.age + dt
     /\ d.resources = drained - paid
     /\ ~d.active => d.x = c.x /\ d.y = c.y
     /\ (d.active /\ cfg.CREATURE_RADIUS < d.x /\ d.x < env.width - cfg.CREATURE_RADIUS)
          => d.x - c.x = Trunc(d.velocityX * dt, 1000)
     /\ (d.active /\ cfg.CREATURE_RADIUS < d.y /\ d.y < env.height - cfg.CREATURE_RADIUS)
          => d.y - c.y = Trunc(d.velocityY * dt, 1000)

\* the time for which creature k has been through its economy step
Elapsed(k) ==
  IF pc = "timers" \/ (pc = "creatures" /\ k >= idx) THEN time - dt ELSE time

\* creature k was seeded, has never played, stands out of reach of every
\* place where food appears, and the population has been the seeded one
\* throughout (nobody was born, nobody has left)
Undisturbed(k) ==
  /\ creatures[k].id < SeededCount
  /\ creatures[k].interactionCount = 0
  /\ cfg.SPEED_FOOD = 0
  /\ \A p \in env.foodPoints : ~InPickup(creatures[k], p)
  /\ generationCount = 0
  /\ Len(creatures) = SeededCount

\* age and resources of creature k depend on the elapsed time only, not on
\* the frames it was divided into
SumOfTicksIsOneTick(k) ==
  /\ creatures[k].age = Elapsed(k)
  /\ creatures[k].resources
       = StartResources * Milli
           - cfg.MAINTENANCE_COST * Elapsed(k) - DensityTerm(Len(creatures), Elapsed(k))

C36_RatesScaleWithDtAtAnyPopulation ==
  /\ [][EconomyStep =>
          TickScalesWithDt(creatures[idx].resources - cfg.MAINTENANCE_COST * dt
                             - DensityTerm(Len(creatures), dt))]_vars
  /\ [](\A k \in 1..Len(creatures) : Undisturbed(k) => SumOfTicksIsOneTick(k))

(* C36 as amended: the same, while the population is at most twice
   carryingCapacity; above that the economy step sets the resources to 0
   whatever dt is (and the creature is destroyed), so the sum of two ticks
   is one tick only for a creature that is in the collection through both. *)
C36_RatesScaleWithDtBelowTheCutoff ==
  /\ [][EconomyStep =>
          TickScalesWithDt(IF Len(creatures) > 2 * cfg.CARRYING_CAPACITY THEN 0
                           ELSE creatures[idx].resources - cfg.MAINTENANCE_COST * dt
                                  - DensityTerm(Len(creatures), dt))]_vars
  /\ [](\A k \in 1..Len(creatures) :
          (Undisturbed(k) /\ Len(creatures) <= 2 * cfg.CARRYING_CAPACITY)
            => SumOfTicksIsOneTick(k))

\* two frames, one of 200 ms and one of 600 ms, have passed over a creature
\* that was drained for maintenance and density and nothing else
C36_Witness ==
  /\ ticks = 2
  /\ time = 800
  /\ \E k \in 1..Len(creatures) :
       /\ Undisturbed(k)
       /\ Elapsed(k) = 800
       /\ Len(creatures) > cfg.CARRYING_CAPACITY
       /\ Len(creatures) <= 2 * cfg.CARRYING_CAPACITY
       /\ creatures[k].age = 800
       /\ creatures[k].resources < StartResources * Milli - cfg.MAINTENANCE_COST * 800

-----------------------------------------------------------------------------
(* C37: the food-seeking force on a creature is zero when no food item is
   within its sensing range: a food item farther away than the sensing range
   does not attract the creature, and with no food at all the force is zero.
   The scene has no sensing range; stated for any sensing range that is not
   the whole world: a nearest food item at the greatest distance the world
   allows between a creature and a food item does not attract it. *)

NoForce == [x |-> 0, y |-> 0]

\* the square of the greatest distance between a creature (kept
\* creatureRadius from the edges) and a food item (spawned 20 from the edges)
FarthestSq ==
  (env.width - cfg.CREATURE_RADIUS - FoodMargin) * (env.width - cfg.CREATURE_RADIUS - FoodMargin)
    + (env.height - cfg.CREATURE_RADIUS - FoodMargin)
        * (env.height - cfg.CREATURE_RADIUS - FoodMargin)

\* the food item nearest to creature c is as far from it as the world allows
NearestFoodIsFarthest(c) ==
  /\ foodGroup # <<>>
  /\ LET f == foodGroup[NearestFood(foodGroup, c.x, c.y)]
     IN DistSq(c.x, c.y, f.x, f.y) >= FarthestSq

C37_FoodOutOfSensingRangeDoesNotAttract ==
  \A k \in 1..Len(creatures) :
    /\ foodGroup = <<>> => FoodForce(creatures[k], foodGroup) = NoForce
    /\ NearestFoodIsFarthest(creatures[k]) => FoodForce(creatures[k], foodGroup) = NoForce

-----------------------------------------------------------------------------
(* C38: when a creature is at exactly the same coordinates as its nearest
   food item, its lastHarmer point or its lastVictim, that force contributes
   the zero vector instead of dividing by a zero length, so no undefined
   value enters a creature's velocity or position. *)

\* creature c is on the spot of the food item nearest to it
OnNearestFood(c) ==
  /\ foodGroup # <<>>
  /\ LET f == foodGroup[NearestFood(foodGroup, c.x, c.y)]
     IN f.x = c.x /\ f.y = c.y

\* creature c is on the point it recorded as lastHarmer
OnHarmer(c) == c.lastHarmer = [x |-> c.x, y |-> c.y]

\* creature c is on the spot of its lastVictim, which is alive
OnVictim(c, cs) ==
  /\ c.lastVictim # NoId
  /\ VictimActive(cs, c.lastVictim)
  /\ VictimOf(cs, c.lastVictim).x = c.x
  /\ VictimOf(cs, c.lastVictim).y = c.y

\* velocity and position of creature c are numbers in their ranges
Defined(c) ==
  /\ c.velocityX \in -MaxSpeed..MaxSpeed
  /\ c.velocityY \in -MaxSpeed..MaxSpeed
  /\ c.x \in cfg.CREATURE_RADIUS..(env.width - cfg.CREATURE_RADIUS)
  /\ c.y \in cfg.CREATURE_RADIUS..(env.height - cfg.CREATURE_RADIUS)

\* creature c wanders nowhere and every target it has is on its own spot
NothingToMoveFor(c, cs) ==
  /\ cfg.SPEED_RANDOM = 0
  /\ foodGroup = <<>> \/ OnNearestFood(c)
  /\ c.lastHarmer = NoPoint \/ OnHarmer(c)
  /\ c.lastVictim = NoId \/ ~VictimActive(cs, c.lastVictim) \/ OnVictim(c, cs)

C38_ZeroDistanceGivesZeroForce ==
  /\ [](\A k \in 1..Len(creatures) :
          /\ OnNearestFood(creatures[k]) => FoodForce(creatures[k], foodGroup) = NoForce
          /\ OnHarmer(creatures[k]) => FleeForce(creatures[k]) = NoForce
          /\ OnVictim(creatures[k], creatures)
               => ChaseForce(creatures[k], creatures) = NoForce
          /\ Defined(creatures[k]))
  /\ [][(EconomyStep /\ creatures'[idx].active
           /\ NothingToMoveFor(creatures[idx], creatures))
          => /\ creatures'[idx].velocityX = Blend(creatures[idx].velocityX, 0)
             /\ creatures'[idx].velocityY = Blend(creatures[idx].velocityY, 0)
             /\ creatures[idx].velocityX = 0 => creatures'[idx].x = creatures[idx].x
             /\ creatures[idx].velocityY = 0 => creatures'[idx].y = creatures[idx].y]_vars

\* both creatures have been through their movement step of this frame at
\* rest on the spot where the food item lies, one with the other's position
\* as its lastHarmer, the other with the first as its lastVictim, and they
\* have stayed there at rest
C38_Witness ==
  /\ pc = "filter"
  /\ Len(creatures) = 2
  /\ \A k \in 1..2 :
       /\ creatures[k].active
       /\ OnNearestFood(creatures[k])
       /\ creatures[k].velocityX = 0 /\ creatures[k].velocityY = 0
       /\ EventsOf("movement", creatures[k].id) # {}
  /\ \E k, j \in 1..2 :
       /\ OnHarmer(creatures[k])
       /\ OnVictim(creatures[j], creatures)
       /\ creatures[j].lastVictim = creatures[k].id

=============================================================================
